---- MODULE Spec2Model ----
(***************************************************************************)
(* Marcenaria Track: the CSV / PDF import staging pipeline and the barcode *)
(* scan workflow of App.tsx, as a state machine over the document store.   *)
(*                                                                         *)
(* Strings are sequences of one-character strings, so that trim, split,    *)
(* toUpperCase and the regular-expression replacements of the source are   *)
(* computed, not assumed.                                                  *)
(*                                                                         *)
(* React state: a handler reads the state of the latest render.  Every     *)
(* handler below is started by a discrete UI event (a click, a form        *)
(* submit); React commits the state updates of one such event before the   *)
(* next one is dispatched, so each step reads the state the previous step  *)
(* wrote.  An await is a step boundary: the code after it is another       *)
(* action, working on what the handler captured before the await.          *)
(***************************************************************************)
EXTENDS Integers, Sequences, FiniteSets, TLC

VARIABLES
  pieces,              \* store, collection 'pieces': id -> document
  projects,            \* store, collection 'projects': id -> document
  loadedPieces,        \* App state 'pieces', as the last onSnapshot delivered it
  now,                 \* the clock behind new Date().toISOString()
  pecasFile,           \* AdminScreenComponent state (App.tsx:1400-1432)
  isProcessingImport,
  loading,
  importStatus,
  importErrors,
  previewData,
  pendingData,
  importRuns,          \* handleAnalyze / handleConfirm runs suspended at an await
  statusTimers,        \* pending setTimeout callbacks that clear importStatus
  pdfFile,             \* PDF import state (App.tsx:1435-1439)
  promobItems,
  isProcessingPdf,
  pdfStatus,
  pdfGlobalErrors,
  pdfRuns,             \* processPdfFile / savePromobData runs suspended at an await
  showSuccessToast,    \* the toast of savePromobData
  toastTimers,         \* pending setTimeout callbacks that clear the toast
  isScanning,          \* ProducaoComponent state, per session
  lastMsg,
  scanRuns,            \* handleScan runs suspended at an await
  lastOp,              \* history: the handler step taken last and its outcome
  lastRun,             \* history: input and per-line origin of the last analysis
  discarded,           \* history: ids of the staged pieces the last cancel dropped
  committed,           \* history: the lines of each file whose batch was committed
  userDocs,            \* store, collection 'users': id -> document
  warehouses,          \* store, collection 'warehouses': id -> document
  volumes,             \* store, collection 'volumes': id -> document
  browser,             \* App and screen state of each browser (App.tsx:3201-3210)
  shipRuns             \* handleGenerate / executeFinalizeLoad runs suspended at an await

vars == <<pieces, projects, loadedPieces, now, pecasFile, isProcessingImport,
          loading, importStatus, importErrors, previewData, pendingData,
          importRuns, statusTimers, pdfFile, promobItems, isProcessingPdf,
          pdfStatus, pdfGlobalErrors, pdfRuns, showSuccessToast, toastTimers,
          isScanning, lastMsg, scanRuns, lastOp, lastRun, discarded, committed,
          userDocs, warehouses, volumes, browser, shipRuns>>

\* The state of the program, without the history variables.
progVars == <<pieces, projects, loadedPieces, now, pecasFile, isProcessingImport,
              loading, importStatus, importErrors, previewData, pendingData,
              importRuns, statusTimers, pdfFile, promobItems, isProcessingPdf,
              pdfStatus, pdfGlobalErrors, pdfRuns, showSuccessToast, toastTimers,
              isScanning, lastMsg, scanRuns>>

storeVars == <<pieces, projects>>
csvVars   == <<pecasFile, isProcessingImport, loading, importStatus,
               importErrors, previewData, pendingData, importRuns, statusTimers>>
pdfVars   == <<pdfFile, promobItems, isProcessingPdf, pdfStatus,
               pdfGlobalErrors, pdfRuns, showSuccessToast, toastTimers>>
scanVars  == <<isScanning, lastMsg, scanRuns>>
appVars   == <<userDocs, warehouses, volumes, browser, shipRuns>>

\* A nullable state value is a sequence: <<>> for null, <<v>> for the value v.
Null == "null"          \* an absent string-valued field
None == <<>>
Some(v) == <<v>>

-----------------------------------------------------------------------------
(* Bounds of the model.                                                    *)

MaxLines == 2      \* data lines (after the header) of a CSV file
MaxClock == 2      \* timestamps taken in one behaviour
MaxCells == 2      \* label cells of a PDF file

-----------------------------------------------------------------------------
(* Strings.                                                                *)

IsSpace(c) == c = " "

RECURSIVE TrimLeft(_)
TrimLeft(s) ==
  IF s # <<>> /\ IsSpace(Head(s)) THEN TrimLeft(Tail(s)) ELSE s

RECURSIVE TrimRight(_)
TrimRight(s) ==
  IF s # <<>> /\ IsSpace(s[Len(s)]) THEN TrimRight(SubSeq(s, 1, Len(s) - 1)) ELSE s

\* String.prototype.trim
Trim(s) == TrimRight(TrimLeft(s))

\* The first position of sep in s at or after i; Len(s) + 1 when none.
RECURSIVE IndexOf(_, _, _)
IndexOf(s, sep, i) ==
  IF i > Len(s) \/ s[i] = sep THEN i ELSE IndexOf(s, sep, i + 1)

\* The parts of s from position from on, cut at position at.
RECURSIVE SplitFrom(_, _, _, _)
SplitFrom(s, sep, from, at) ==
  IF at > Len(s) THEN <<SubSeq(s, from, Len(s))>>
  ELSE <<SubSeq(s, from, at - 1)>>
         \o SplitFrom(s, sep, at + 1, IndexOf(s, sep, at + 1))

\* String.prototype.split(sep) for a one-character separator: the parts
\* between the separators, "" giving [""].
Split(s, sep) == SplitFrom(s, sep, 1, IndexOf(s, sep, 1))

\* Array.prototype.join(sep)
RECURSIVE Join(_, _)
Join(parts, sep) ==
  IF parts = <<>> THEN <<>>
  ELSE IF Len(parts) = 1 THEN parts[1]
  ELSE parts[1] \o <<sep>> \o Join(Tail(parts), sep)

LowerCase == <<"a", "b", "c", "e", "i", "j", "k", "l", "m", "n", "o", "p", "q",
               "r", "s", "t", "w", "x">>
UpperCase == <<"A", "B", "C", "E", "I", "J", "K", "L", "M", "N", "O", "P", "Q",
               "R", "S", "T", "W", "X">>

UpperChar(c) ==
  IF \E k \in 1..Len(LowerCase) : LowerCase[k] = c
  THEN UpperCase[CHOOSE k \in 1..Len(LowerCase) : LowerCase[k] = c]
  ELSE c

\* String.prototype.toUpperCase
ToUpperCase(s) == [i \in 1..Len(s) |-> UpperChar(s[i])]

\* replace(/\s+/g, '_'): every run of white space becomes one underscore.
RECURSIVE ReplaceSpaces(_)
ReplaceSpaces(s) ==
  IF s = <<>> THEN <<>>
  ELSE IF IsSpace(Head(s)) THEN <<"_">> \o ReplaceSpaces(TrimLeft(s))
  ELSE <<Head(s)>> \o ReplaceSpaces(Tail(s))

\* replace(/^"|"$/g, ''): one leading and one trailing double quote go.
StripQuotes(s) ==
  LET a == IF s # <<>> /\ Head(s) = "\"" THEN Tail(s) ELSE s
  IN  IF a # <<>> /\ a[Len(a)] = "\"" THEN SubSeq(a, 1, Len(a) - 1) ELSE a

Digits == {"0", "1", "2", "3", "4", "5", "6", "7", "8", "9"}
Letters == {LowerCase[k] : k \in 1..Len(LowerCase)}
             \cup {UpperCase[k] : k \in 1..Len(UpperCase)} \cup {"H", "M", "P"}


-----------------------------------------------------------------------------
(* Validation: the Zod schemas and mapZodErrorToImportError.               *)
(* An issue is [path, code, message]; a schema gives [issues, value].      *)
(* refineOnDirty is the one point where the outcome depends on the zod     *)
(* build the bundle resolves ('zod' is imported unpinned): a refinement    *)
(* placed after a failed string check runs in zod 3 and is skipped in      *)
(* zod 4.  The actions draw it nondeterministically.                       *)
(* Intermediate results are passed as operator arguments, not named in     *)
(* LET, which keeps the expression tree TLC builds for coverage small.     *)

Issue(path, code, message) == [path |-> path, code |-> code, message |-> message]

\* z.string().min(1, message)
MinOne(path, raw, message) ==
  IF Len(raw) < 1 THEN <<Issue(path, "too_small", message)>> ELSE <<>>

\* .refine(val => val.length >= 3, ...)
BarcodeRefine(path, val) ==
  IF Len(val) >= 3 THEN <<>>
  ELSE <<Issue(path, "custom", "Codigo de barras deve ter pelo menos 3 caracteres")>>

\* z.string().min(1, ...).transform(str => str.trim()).refine(...): the
\* transform runs only on a base without issues.
BarcodeSchema(path, raw, refineOnDirty) ==
  IF Len(raw) < 1
  THEN [issues |-> MinOne(path, raw, "Codigo de barras e obrigatorio")
                   \o (IF refineOnDirty THEN BarcodeRefine(path, raw) ELSE <<>>),
        value  |-> raw]
  ELSE [issues |-> BarcodeRefine(path, Trim(raw)),
        value  |-> Trim(raw)]

\* String.prototype.replace(',', '.'): the first comma only.
RECURSIVE ReplaceFirstComma(_)
ReplaceFirstComma(s) ==
  IF s = <<>> THEN <<>>
  ELSE IF Head(s) = "," THEN <<".">> \o Tail(s)
  ELSE <<Head(s)>> \o ReplaceFirstComma(Tail(s))

\* The digits and dots of a number without its sign.
Unsigned(val) ==
  IF val # <<>> /\ Head(val) \in {"-", "+"} THEN Tail(val) ELSE val

IsUnsignedNumeric(body) ==
  /\ \A i \in 1..Len(body) : body[i] \in Digits \cup {"."}
  /\ \E i \in 1..Len(body) : body[i] \in Digits
  /\ Cardinality({i \in 1..Len(body) : body[i] = "."}) <= 1

\* !isNaN(Number(val)) for a trimmed, non-empty val over the model's
\* alphabet: an optional sign, digits with at most one dot, one digit at least.
IsNumeric(val) == IsUnsignedNumeric(Unsigned(val))

\* Number(val) >= 0 for a numeric val (-0 is not below 0).
IsNonNegative(val) ==
  \/ val = <<>>
  \/ Head(val) # "-"
  \/ \A i \in 1..Len(val) : val[i] \in {"-", "0", "."}

\* val === '' || (!isNaN(Number(val)) && Number(val) >= 0)
DimensionOk(val) == val = <<>> \/ (IsNumeric(val) /\ IsNonNegative(val))

DimensionResult(path, raw, val) ==
  [issues |-> IF DimensionOk(val) \/ Len(raw) = 0 THEN <<>>
              ELSE <<Issue(path, "custom", "Deve ser um numero positivo")>>,
   value  |-> IF DimensionOk(val) THEN val ELSE raw]

\* z.string().transform(val => val.trim().replace(',', '.')).refine(...)
\*   .or(z.string().length(0))
DimensionValueSchema(path, raw) ==
  DimensionResult(path, raw, ReplaceFirstComma(Trim(raw)))

MaxClientNameLength == 100

ClientNameSchema(path, raw) ==
  [issues |-> IF Len(raw) > MaxClientNameLength
              THEN <<Issue(path, "too_big", "Nome do cliente muito longo")>>
              ELSE <<>>,
   value  |-> IF Len(raw) > MaxClientNameLength THEN raw ELSE Trim(raw)]

CsvRowResult(rawData, code, name, proj, bar, comp, larg, esp) ==
  [success |-> code \o name \o proj \o bar.issues \o comp.issues \o larg.issues
                 \o esp.issues = <<>>,
   issues  |-> code \o name \o proj \o bar.issues \o comp.issues \o larg.issues
                 \o esp.issues,
   data    |-> [rawData EXCEPT
                  !.clientName  = IF name = <<>> THEN Trim(@) ELSE @,
                  !.barcode     = bar.value,
                  !.comprimento = comp.value,
                  !.largura     = larg.value,
                  !.espessura   = esp.value]]

\* CsvRowSchema.safeParse(rawData): the issues in the order of the shape.
CsvRowSchema(rawData, refineOnDirty) ==
  CsvRowResult(rawData,
    MinOne("clientCode", rawData.clientCode, "Codigo do cliente ausente"),
    MinOne("clientName", rawData.clientName, "Nome do cliente ausente"),
    MinOne("projectName", rawData.projectName, "Nome do projeto ausente"),
    BarcodeSchema("barcode", rawData.barcode, refineOnDirty),
    DimensionValueSchema("comprimento", rawData.comprimento),
    DimensionValueSchema("largura", rawData.largura),
    DimensionValueSchema("espessura", rawData.espessura))

PdfItemResult(rawItem, cli, cod) ==
  [success |-> cli.issues \o cod.issues = <<>>,
   issues  |-> cli.issues \o cod.issues,
   data    |-> [rawItem EXCEPT !.cliente = cli.value, !.codItem = cod.value]]

\* PdfItemSchema.safeParse(rawItem)
PdfItemSchema(rawItem, refineOnDirty) ==
  PdfItemResult(rawItem,
    ClientNameSchema("cliente", rawItem.cliente),
    BarcodeSchema("codItem", rawItem.codItem, refineOnDirty))

ErrorTypeOf(path) ==
  IF path \in {"clientName", "cliente"} THEN "MISSING_CLIENT_INFO"
  ELSE IF path \in {"comprimento", "largura"} THEN "INVALID_MEASUREMENTS"
  ELSE IF path = "barcode" THEN "INVALID_BARCODE_FORMAT"
  ELSE "VALIDATION_ERROR"

mapZodErrorToImportError(issue, rowIndex, context) ==
  [type       |-> ErrorTypeOf(issue.path),
   message    |-> issue.message,
   severity   |-> IF issue.path \in {"comprimento", "largura"} THEN "WARNING"
                  ELSE "ERROR",
   lineNumber |-> IF context = "CSV" THEN rowIndex ELSE 0,
   pageNumber |-> IF context = "CSV" THEN 0 ELSE rowIndex,
   field      |-> issue.path]

-----------------------------------------------------------------------------
(* handleAnalyze: the row loop and the preview (pure part).                *)

MAX_FILE_SIZE == 10 * 1024 * 1024
MIN_ROWS_REQUIRED == 2
MinColumns == 17

StripEach(raw) == [k \in 1..Len(raw) |-> StripQuotes(Trim(raw[k]))]

\* line.split(',').map(col => col.trim().replace(/^"|"$/g, ''))
CsvCols(line) == StripEach(Split(line, ","))

\* cols[index] for the 0-based index of the source
Col(cols, index) == cols[index + 1]

\* Variant: a piece id that also carries the time of the analysis.
PieceIdFresh(ws, barcode) == ws \o <<"_">> \o barcode \o [k \in 1..now |-> "+"]

PieceId(ws, barcode) == ws \o <<"_">> \o barcode

OrElse(s, default) == IF s = <<>> THEN default ELSE s

\* The staged piece of a valid row (lines 1748-1759); 'Peca ' stands for the
\* Portuguese word of the source.
NewPiece(ws, validData) ==
  [id          |-> PieceId(ws, validData.barcode),
   workspaceId |-> ws,
   nome        |-> OrElse(validData.pieceName,
                          <<"P", "e", "c", "a", " ">> \o validData.barcode),
   modulo      |-> validData.pieceModule,
   projeto     |-> validData.projectName,
   cliente     |-> validData.clientName,
   medidas     |-> OrElse(validData.comprimento, <<"0">>) \o <<"x">>
                   \o OrElse(validData.largura, <<"0">>) \o <<"x">>
                   \o OrElse(validData.espessura, <<"0">>),
   material    |-> validData.material,
   cor         |-> validData.cor,
   status      |-> "PENDENTE",
   producedAt  |-> 0,
   producedBy  |-> Null,
   scanHistory |-> {}]

NoRow == [errors |-> <<>>, pecas |-> <<>>, client |-> <<>>]

\* Variant: the error of a short line numbered from 0.
MissingColumnErrorFromZero(i) ==
  [type       |-> "MISSING_REQUIRED_COLUMN",
   message    |-> "Linha com colunas insuficientes",
   severity   |-> "WARNING",
   lineNumber |-> i,
   pageNumber |-> 0,
   field      |-> Null]

\* The error of a line with too few columns (lines 1700-1710).
MissingColumnError(i) ==
  [type       |-> "MISSING_REQUIRED_COLUMN",
   message    |-> "Linha com colunas insuficientes",
   severity   |-> "WARNING",
   lineNumber |-> i + 1,
   pageNumber |-> 0,
   field      |-> Null]

\* Variant: the client name read one column to the left.
RawDataShifted(cols) ==
  [clientCode  |-> Col(cols, 16),
   clientName  |-> Col(cols, 12),
   projectName |-> Col(cols, 8),
   barcode     |-> Col(cols, 11),
   pieceModule |-> Col(cols, 2),
   pieceName   |-> Col(cols, 3),
   comprimento |-> Col(cols, 4),
   largura     |-> Col(cols, 5),
   espessura   |-> Col(cols, 6),
   material    |-> Col(cols, 9),
   cor         |-> Col(cols, 10)]

\* The fixed column indexes of the Haixun layout (lines 1665-1675, 1713-1725).
RawData(cols) ==
  [clientCode  |-> Col(cols, 16),
   clientName  |-> Col(cols, 13),
   projectName |-> Col(cols, 8),
   barcode     |-> Col(cols, 11),
   pieceModule |-> Col(cols, 2),
   pieceName   |-> Col(cols, 3),
   comprimento |-> Col(cols, 4),
   largura     |-> Col(cols, 5),
   espessura   |-> Col(cols, 6),
   material    |-> Col(cols, 9),
   cor         |-> Col(cols, 10)]

\* Lines 1729-1761: the errors of a failed validation, or the staged piece.
RowOfValidation(validation, i, ws) ==
  IF ~validation.success THEN
    [NoRow EXCEPT !.errors =
       [k \in 1..Len(validation.issues) |->
          mapZodErrorToImportError(validation.issues[k], i + 1, "CSV")]]
  ELSE
    [errors |-> <<>>,
     pecas  |-> <<NewPiece(ws, validation.data)>>,
     client |-> <<[clientCode  |-> validation.data.clientCode,
                   clientName  |-> validation.data.clientName,
                   projectName |-> validation.data.projectName]>>]

RowOfCols(cols, i, ws, refineOnDirty) ==
  IF Len(cols) < MinColumns THEN [NoRow EXCEPT !.errors = <<MissingColumnError(i)>>]
  ELSE RowOfValidation(CsvRowSchema(RawData(cols), refineOnDirty), i, ws)

RowOfLine(line, i, ws, refineOnDirty) ==
  IF line = <<>> THEN NoRow ELSE RowOfCols(CsvCols(line), i, ws, refineOnDirty)

\* One pass of the for loop over lines1[i] (i is the 0-based index): what the
\* pass appends to errorsList and tempPecas, and the entry it gives clientMap.
ProcessLine(rawLine, i, ws, refineOnDirty) ==
  RowOfLine(Trim(rawLine), i, ws, refineOnDirty)

\* clientMap after one more valid row: a Map in insertion order, keyed by
\* clientCode, each entry holding the Set of its project names.
ClientMapAdd(clientMap, c) ==
  IF \E k \in 1..Len(clientMap) : clientMap[k].clientCode = c.clientCode
  THEN [k \in 1..Len(clientMap) |->
          IF clientMap[k].clientCode = c.clientCode
          THEN [clientMap[k] EXCEPT !.projects = @ \cup {c.projectName}]
          ELSE clientMap[k]]
  ELSE Append(clientMap, [clientCode |-> c.clientCode,
                          clientName |-> c.clientName,
                          projects   |-> {c.projectName}])

NoRows == [errorsList |-> <<>>, tempPecas |-> <<>>, clientMap |-> <<>>,
           origin |-> <<>>]

\* What the loop has built after the pass that gave r for line index i;
\* origin records the line number of each staged piece.
RowStep(acc, r, i) ==
  [errorsList |-> acc.errorsList \o r.errors,
   tempPecas  |-> acc.tempPecas \o r.pecas,
   clientMap  |-> IF r.client = <<>> THEN acc.clientMap
                  ELSE ClientMapAdd(acc.clientMap, r.client[1]),
   origin     |-> IF r.pecas = <<>> THEN acc.origin ELSE Append(acc.origin, i + 1)]

\* Variant: a loop that ends at the first line that has an error.
RECURSIVE RowLoopStopping(_, _, _, _, _)
RowLoopStopping(lines1, i, ws, refineOnDirty, acc) ==
  IF i >= Len(lines1) \/ acc.errorsList # <<>> THEN acc
  ELSE RowLoopStopping(lines1, i + 1, ws, refineOnDirty,
                       RowStep(acc, ProcessLine(lines1[i + 1], i, ws, refineOnDirty), i))

\* The loop from index i (0-based) to the last line, given what it built so far.
RECURSIVE RowLoop(_, _, _, _, _)
RowLoop(lines1, i, ws, refineOnDirty, acc) ==
  IF i >= Len(lines1) THEN acc
  ELSE RowLoop(lines1, i + 1, ws, refineOnDirty,
               RowStep(acc, ProcessLine(lines1[i + 1], i, ws, refineOnDirty), i))

\* The distinct values of a sequence, in order of first appearance.
RECURSIVE Distinct(_)
Distinct(s) ==
  IF s = <<>> THEN <<>>
  ELSE IF \E k \in 1..(Len(s) - 1) : s[k] = s[Len(s)]
       THEN Distinct(SubSeq(s, 1, Len(s) - 1))
       ELSE Append(Distinct(SubSeq(s, 1, Len(s) - 1)), s[Len(s)])

\* reduce((sum, p) => sum + p, 0) over the first n entries of f
RECURSIVE Sum(_, _)
Sum(f, n) == IF n = 0 THEN 0 ELSE f[n] + Sum(f, n - 1)

PiecesOfProject(mine, name) == SelectSeq(mine, LAMBDA p : p.projeto = name)

ProjectStat(name, of) ==
  [name        |-> name,
   pieceCount  |-> Len(of),
   moduleCount |-> Cardinality({of[j].modulo : j \in 1..Len(of)})]

ProjectList(mine, names) ==
  [k \in 1..Len(names) |-> ProjectStat(names[k], PiecesOfProject(mine, names[k]))]

PreviewRecord(clientInfo, projectList) ==
  [clientCode    |-> clientInfo.clientCode,
   clientName    |-> clientInfo.clientName,
   totalProjects |-> Len(projectList),
   totalModules  |-> Sum([k \in 1..Len(projectList) |-> projectList[k].moduleCount],
                         Len(projectList)),
   totalPieces   |-> Sum([k \in 1..Len(projectList) |-> projectList[k].pieceCount],
                         Len(projectList)),
   projects      |-> projectList,
   isValid       |-> TRUE]

PreviewOfMine(clientInfo, mine) ==
  PreviewRecord(clientInfo,
    ProjectList(mine, Distinct([k \in 1..Len(mine) |-> mine[k].projeto])))

\* One entry of previewList (lines 1772-1798): the pieces are matched to the
\* clientMap entry by client name.
PreviewOf(clientInfo, tempPecas) ==
  PreviewOfMine(clientInfo,
    SelectSeq(tempPecas, LAMBDA p : p.cliente = clientInfo.clientName))

PreviewList(clientMap, tempPecas) ==
  [k \in 1..Len(clientMap) |-> PreviewOf(clientMap[k], tempPecas)]

StripBoms(lines) ==
  [k \in 1..Len(lines) |->
     IF lines[k] # <<>> /\ Head(lines[k]) = "BOM" THEN Tail(lines[k]) ELSE lines[k]]

\* detectAndFixEncoding: a byte-order mark at the start of a line goes.
detectAndFixEncoding(content) == Join(StripBoms(Split(content, "\n")), "\n")

ImportError(type, message, severity) ==
  [type |-> type, message |-> message, severity |-> severity,
   lineNumber |-> 0, pageNumber |-> 0, field |-> Null]

CountErrors(errorsList) == Len(SelectSeq(errorsList, LAMBDA e : e.severity # "WARNING"))

\* Variant: the analysis without the gate on an empty tempPecas.
StageOfUngated(lines1, res) ==
  [importErrors |-> res.errorsList,
   importStatus |-> [type |-> "success",
                     message |-> <<"Analise concluida", Len(res.tempPecas)>>],
   previewData  |-> Some(<<>>),
   pendingData  |-> Some([tempPecas |-> res.tempPecas,
                          clientProjects |-> res.clientMap]),
   lines        |-> lines1,
   origin       |-> res.origin]

\* Lines 1764-1808: the gate on tempPecas and what is staged.
StageOf(lines1, res) ==
  IF Len(res.tempPecas) = 0 THEN
    [importErrors |-> res.errorsList,
     importStatus |-> [type |-> "error",
                       message |-> <<"Erro: Nenhuma peca valida encontrada.">>],
     previewData  |-> None,
     pendingData  |-> None,
     lines        |-> lines1,
     origin       |-> <<>>]
  ELSE
    [importErrors |-> res.errorsList,
     importStatus |->
       IF CountErrors(res.errorsList) > 0
       THEN [type |-> "error",
             message |-> <<"Analise com erros", CountErrors(res.errorsList),
                           Len(res.tempPecas)>>]
       ELSE [type |-> "success",
             message |-> <<"Analise concluida", Len(res.tempPecas)>>],
     previewData  |-> Some(PreviewList(res.clientMap, res.tempPecas)),
     pendingData  |-> Some([tempPecas |-> res.tempPecas,
                            clientProjects |-> res.clientMap]),
     lines        |-> lines1,
     origin       |-> res.origin]

\* Lines 1654-1661: too few lines end the run before the loop.
OutcomeOfLines(lines1, ws, refineOnDirty) ==
  IF Len(lines1) < MIN_ROWS_REQUIRED THEN
    [importErrors |-> <<ImportError("CSV_PARSE_ERROR",
                          "Arquivo vazio ou com linhas insuficientes", "CRITICAL")>>,
     importStatus |-> [type |-> "error", message |-> <<"Arquivo invalido.">>],
     previewData  |-> None,
     pendingData  |-> None,
     lines        |-> lines1,
     origin       |-> <<>>]
  ELSE StageOf(lines1, RowLoop(lines1, 1, ws, refineOnDirty, NoRows))

\* What the code after 'await readFileAsText' leaves in the component state,
\* for the text read (lines 1648-1808); None is 'not set by this run'.
AnalyzeOutcome(labelContentRaw, ws, refineOnDirty) ==
  OutcomeOfLines(Split(detectAndFixEncoding(labelContentRaw), "\n"), ws, refineOnDirty)

-----------------------------------------------------------------------------
(* handleConfirm: the batch (pure part).                                   *)

ProjectKey(p) == p.cliente \o <<"_">> \o p.projeto

\* key.replace(/\s+/g, '_').toUpperCase()
ProjId(key) == ToUpperCase(ReplaceSpaces(key))

FirstOrEmpty(hits) == IF hits = <<>> THEN <<>> ELSE hits[1].clientCode

\* clientProjects.find(c => c.clientName === p.cliente)?.clientCode || ''
ClientCodeOf(clientProjects, cliente) ==
  FirstOrEmpty(SelectSeq(clientProjects, LAMBDA c : c.clientName = cliente))

\* The first staged piece with the given client_project key.
FirstOfKey(tempPecas, key) ==
  tempPecas[CHOOSE k \in 1..Len(tempPecas) :
              /\ ProjectKey(tempPecas[k]) = key
              /\ \A j \in 1..(k - 1) : ProjectKey(tempPecas[j]) # key]

ProjectDoc(key, p, clientProjects, ws, at) ==
  [id           |-> ProjId(key),
   workspaceId  |-> ws,
   project_name |-> p.projeto,
   client_name  |-> p.cliente,
   client_code  |-> ClientCodeOf(clientProjects, p.cliente),
   status       |-> "PRODUCAO",
   created_at   |-> at,
   module_dimensions |-> <<>>]

ProjectDocs(data, keys, ws, at) ==
  [k \in 1..Len(keys) |->
     ProjectDoc(keys[k], FirstOfKey(data.tempPecas, keys[k]), data.clientProjects, ws, at)]

\* The documents the batch sets, in the order the code adds them: one project
\* per distinct client_project key, then every staged piece (lines 1833-1864).
BuildBatch(data, ws, at) ==
  [projects |-> ProjectDocs(data,
                  Distinct([k \in 1..Len(data.tempPecas) |-> ProjectKey(data.tempPecas[k])]),
                  ws, at),
   pieces   |-> data.tempPecas]

SetOne(coll, d) == [id \in DOMAIN coll \cup {d.id} |-> IF id = d.id THEN d ELSE coll[id]]

\* batch.set(ref, doc) for every document of a sequence, in order.
RECURSIVE SetAll(_, _)
SetAll(coll, docs) ==
  IF docs = <<>> THEN coll ELSE SetAll(SetOne(coll, Head(docs)), Tail(docs))

-----------------------------------------------------------------------------
(* Inputs: CSV files built from a catalogue of lines.                      *)

WS == <<"w", "s">>       \* getWorkspaceId() of the administrator's browser

\* getWorkspaceId() of another installation that shares the store.
OtherWS == <<"w", "2">>

Row17(clientCode, clientName, projectName, barcode, comprimento) ==
  Join(<<  <<"1">>, <<"x">>, <<"M">>, <<"P">>, comprimento, <<"3">>, <<>>,
           <<>>, projectName, <<"O">>, <<"C">>, barcode, <<>>, clientName,
           <<>>, <<>>, clientCode  >>, ",")

RowText(r) ==
  CASE r = "A1"    -> Row17(<<"7">>, <<"A", "c">>, <<"K", " ", "a">>,
                            <<"A", "B", "1">>, <<"1", "2">>)
    [] r = "B2"    -> Row17(<<"8">>, <<"B", "o">>, <<"Q">>,
                            <<"a", "b", "2">>, <<>>)
    [] r = "short" -> Join(<<  <<"1">>, <<"x">>, <<"M">>, <<"P">>, <<>>, <<>>,
                               <<>>, <<>>, <<"Q">>, <<"O">>  >>, ",")
    [] r = "blank" -> <<" ">>
    [] r = "bc2"   -> Row17(<<"7">>, <<"A", "c">>, <<"Q">>, <<"A", "B">>, <<>>)
    [] r = "bc0"   -> Row17(<<"7">>, <<"A", "c">>, <<"Q">>, <<>>, <<>>)
    [] r = "dimx"  -> Row17(<<"7">>, <<"A", "c">>, <<"Q">>, <<"A", "B", "3">>, <<"x">>)
    [] r = "nocli" -> Row17(<<"7">>, <<>>, <<"Q">>, <<"A", "B", "3">>, <<>>)
    [] r = "Bo7"   -> Row17(<<"7">>, <<"B", "o">>, <<"Q">>, <<"A", "B", "4">>, <<>>)

AllRows   == {"A1", "B2", "short", "blank", "bc2", "bc0", "dimx", "nocli", "Bo7"}

HeaderLine == <<"H">>

SeqsUpTo(S, n) == UNION {[1..k -> S] : k \in 0..n}

\* The text of the file whose data lines are the catalogue lines rows.
FileText(rows) ==
  Join(<<HeaderLine>> \o [k \in 1..Len(rows) |-> RowText(rows[k])], "\n")

\* The CSV files over a set of catalogue lines: the size is the largest one
\* accepted, or one byte more.
Files(rowSet) ==
  {[rows |-> r, size |-> MAX_FILE_SIZE] : r \in SeqsUpTo(rowSet, MaxLines)}
    \cup {[rows |-> <<>>, size |-> MAX_FILE_SIZE + 1]}

\* The files of the staging scenarios: one piece, two pieces of two clients,
\* no valid line, and a file over the size limit.
StageFiles ==
  {[rows |-> <<"A1">>, size |-> MAX_FILE_SIZE],
   [rows |-> <<"A1", "B2">>, size |-> MAX_FILE_SIZE],
   [rows |-> <<"short">>, size |-> MAX_FILE_SIZE],
   [rows |-> <<"A1">>, size |-> MAX_FILE_SIZE + 1]}

-----------------------------------------------------------------------------
(* The CSV import handlers of AdminScreenComponent.                        *)

NoStatus == [type |-> Null, message |-> <<>>]

AnalyzeRuns == SelectSeq(importRuns, LAMBDA r : r.op = "analyze")
ConfirmRuns == SelectSeq(importRuns, LAMBDA r : r.op = "confirm")

Without(runs, k) == SubSeq(runs, 1, k - 1) \o SubSeq(runs, k + 1, Len(runs))

\* <input type="file" onChange={e => setPecasFile(e.target.files[0])}>, in
\* the card that is rendered while there is no preview.
SelectFile(f) ==
  /\ previewData = None
  /\ pecasFile' = Some(f)
  /\ lastOp' = "select"
  /\ UNCHANGED <<storeVars, loadedPieces, now, isProcessingImport, loading,
                 importStatus, importErrors, previewData, pendingData,
                 importRuns, statusTimers, pdfVars, scanVars, lastRun, discarded, committed, appVars>>

\* Variant: handleAnalyze without its guard.
AnalyzeGuardOff == TRUE

\* The guard of handleAnalyze (line 1623): TRUE when the call goes on.
AnalyzeGuard == ~isProcessingImport

\* Variant: the in-flight flag set before the size of the file is tested.
HandleAnalyzeFlagFirst ==
  IF ~AnalyzeGuard THEN
    /\ lastOp' = "analyze:ignored"
    /\ UNCHANGED <<storeVars, loadedPieces, now, csvVars, pdfVars, scanVars,
                   lastRun, discarded, committed, appVars>>
  ELSE
    /\ importErrors' = <<>>
    /\ previewData' = None
    /\ pendingData' = None
    /\ lastRun' = None
    /\ discarded' = {}
    /\ IF pecasFile = None THEN
         /\ importStatus' = [type |-> "error", message |-> <<"Erro: Selecione a planilha">>]
         /\ lastOp' = "analyze:nofile"
         /\ UNCHANGED <<isProcessingImport, loading, importRuns>>
       ELSE IF pecasFile[1].size > MAX_FILE_SIZE THEN
         /\ importStatus' = [type |-> "error", message |-> <<"Erro: Arquivo muito grande">>]
         /\ lastOp' = "analyze:toobig"
         /\ isProcessingImport' = TRUE
         /\ loading' = TRUE
         /\ UNCHANGED importRuns
       ELSE
         /\ importStatus' = NoStatus
         /\ isProcessingImport' = TRUE
         /\ loading' = TRUE
         /\ importRuns' = Append(importRuns, [op |-> "analyze", file |-> pecasFile[1]])
         /\ lastOp' = "analyze:start"
    /\ UNCHANGED <<storeVars, loadedPieces, now, pecasFile, statusTimers,
                   pdfVars, scanVars, committed, appVars>>

\* handleAnalyze up to its first await (lines 1622-1647).
HandleAnalyze ==
  IF ~AnalyzeGuard THEN
    /\ lastOp' = "analyze:ignored"
    /\ UNCHANGED <<storeVars, loadedPieces, now, csvVars, pdfVars, scanVars,
                   lastRun, discarded, committed, appVars>>
  ELSE
    /\ importErrors' = <<>>
    /\ previewData' = None
    /\ pendingData' = None
    /\ lastRun' = None
    /\ discarded' = {}
    /\ IF pecasFile = None THEN
         /\ importStatus' = [type |-> "error", message |-> <<"Erro: Selecione a planilha">>]
         /\ lastOp' = "analyze:nofile"
         /\ UNCHANGED <<isProcessingImport, loading, importRuns>>
       ELSE IF pecasFile[1].size > MAX_FILE_SIZE THEN
         /\ importStatus' = [type |-> "error", message |-> <<"Erro: Arquivo muito grande">>]
         /\ lastOp' = "analyze:toobig"
         /\ UNCHANGED <<isProcessingImport, loading, importRuns>>
       ELSE
         /\ importStatus' = NoStatus
         /\ isProcessingImport' = TRUE
         /\ loading' = TRUE
         /\ importRuns' = Append(importRuns, [op |-> "analyze", file |-> pecasFile[1]])
         /\ lastOp' = "analyze:start"
    /\ UNCHANGED <<storeVars, loadedPieces, now, pecasFile, statusTimers,
                   pdfVars, scanVars, committed, appVars>>

\* The state a finished analysis leaves (setImportErrors, setImportStatus,
\* setPreviewData, setPendingData of lines 1658-1808).
AnalyzeApply(out) ==
  /\ importErrors' = out.importErrors
  /\ importStatus' = out.importStatus
  /\ previewData' = IF out.previewData = None THEN previewData ELSE out.previewData
  /\ pendingData' = IF out.pendingData = None THEN pendingData ELSE out.pendingData
  /\ lastRun' = Some([lines |-> out.lines, origin |-> out.origin])

\* Variant: an analysis that also writes the pieces it staged.
AnalyzeReadWrites(k) ==
  /\ k \in 1..Len(importRuns)
  /\ importRuns[k].op = "analyze"
  /\ AnalyzeApply(AnalyzeOutcome(FileText(importRuns[k].file.rows), WS, FALSE))
  /\ pieces' = IF pendingData' = None THEN pieces
               ELSE SetAll(pieces, pendingData'[1].tempPecas)
  /\ loading' = FALSE
  /\ isProcessingImport' = FALSE
  /\ importRuns' = Without(importRuns, k)
  /\ lastOp' = "analyze:done"
  /\ UNCHANGED <<projects, loadedPieces, now, pecasFile, statusTimers,
                 pdfVars, scanVars, discarded, committed, appVars>>

\* readFileAsText resolves for run k: the rest of handleAnalyze (lines
\* 1648-1808) and its finally block (1820-1823).
AnalyzeRead(k) ==
  /\ k \in 1..Len(importRuns)
  /\ importRuns[k].op = "analyze"
  /\ \E refineOnDirty \in BOOLEAN :
       AnalyzeApply(AnalyzeOutcome(FileText(importRuns[k].file.rows), WS, refineOnDirty))
  /\ loading' = FALSE
  /\ isProcessingImport' = FALSE
  /\ importRuns' = Without(importRuns, k)
  /\ lastOp' = "analyze:done"
  /\ UNCHANGED <<storeVars, loadedPieces, now, pecasFile, statusTimers,
                 pdfVars, scanVars, discarded, committed, appVars>>

\* readFileAsText rejects for run k (reader.onerror): the catch block (lines
\* 1810-1819) and the finally block.
AnalyzeReadFail(k) ==
  /\ k \in 1..Len(importRuns)
  /\ importRuns[k].op = "analyze"
  /\ importErrors' = <<ImportError("GENERIC_SYSTEM_ERROR",
                          "Erro desconhecido ao processar arquivo", "CRITICAL")>>
  /\ importStatus' = [type |-> "error", message |-> <<"Erro critico na importacao.">>]
  /\ loading' = FALSE
  /\ isProcessingImport' = FALSE
  /\ importRuns' = Without(importRuns, k)
  /\ lastOp' = "analyze:failed"
  /\ UNCHANGED <<storeVars, loadedPieces, now, pecasFile, previewData,
                 pendingData, statusTimers, pdfVars, scanVars, lastRun, discarded, committed, appVars>>

\* Variant: handleConfirm that asks only for staged data.
ConfirmGuardNoFlag == pendingData # None

\* The guard of handleConfirm (line 1827): TRUE when the call goes on.
ConfirmGuard == pendingData # None /\ ~isProcessingImport

\* handleConfirm up to 'await batch.commit()' (lines 1826-1866).
HandleConfirm ==
  IF ~ConfirmGuard THEN
    /\ lastOp' = "confirm:ignored"
    /\ UNCHANGED <<storeVars, loadedPieces, now, csvVars, pdfVars, scanVars,
                   lastRun, discarded, committed, appVars>>
  ELSE
    /\ now <= MaxClock
    /\ isProcessingImport' = TRUE
    /\ loading' = TRUE
    /\ importRuns' = Append(importRuns,
                        [op |-> "confirm", batch |-> BuildBatch(pendingData[1], WS, now),
                         lines |-> IF lastRun = None THEN <<>> ELSE lastRun[1].lines])
    /\ now' = now + 1
    /\ lastOp' = "confirm:start"
    /\ UNCHANGED <<storeVars, loadedPieces, pecasFile, importStatus, importErrors,
                   previewData, pendingData, statusTimers, pdfVars, scanVars,
                   lastRun, discarded, committed, appVars>>

\* batch.commit() resolves for run k: the store takes the whole batch, then
\* lines 1868-1874 and the finally block.
ConfirmCommit(k) ==
  /\ k \in 1..Len(importRuns)
  /\ importRuns[k].op = "confirm"
  /\ projects' = SetAll(projects, importRuns[k].batch.projects)
  /\ pieces' = SetAll(pieces, importRuns[k].batch.pieces)
  /\ importStatus' = [type |-> "success", message |-> <<"Importacao realizada com sucesso!">>]
  /\ previewData' = None
  /\ pendingData' = None
  /\ pecasFile' = None
  /\ importErrors' = <<>>
  /\ statusTimers' = statusTimers + 1
  /\ loading' = FALSE
  /\ isProcessingImport' = FALSE
  /\ importRuns' = Without(importRuns, k)
  /\ lastRun' = None
  /\ committed' = Append(committed, importRuns[k].lines)
  /\ lastOp' = "confirm:done"
  /\ UNCHANGED <<loadedPieces, now, pdfVars, scanVars, discarded, appVars>>

\* Variant: a rejected commit that has written the first piece of the batch.
ConfirmFailPartial(k) ==
  /\ k \in 1..Len(importRuns)
  /\ importRuns[k].op = "confirm"
  /\ pieces' = SetAll(pieces, SubSeq(importRuns[k].batch.pieces, 1, 1))
  /\ importStatus' = [type |-> "error", message |-> <<"Erro ao gravar dados.">>]
  /\ loading' = FALSE
  /\ isProcessingImport' = FALSE
  /\ importRuns' = Without(importRuns, k)
  /\ lastOp' = "confirm:failed"
  /\ UNCHANGED <<projects, loadedPieces, now, pecasFile, importErrors,
                 previewData, pendingData, statusTimers, pdfVars, scanVars,
                 lastRun, discarded, committed, appVars>>

\* batch.commit() rejects for run k: nothing of the batch is written; the
\* catch block (lines 1876-1879) and the finally block.
ConfirmFail(k) ==
  /\ k \in 1..Len(importRuns)
  /\ importRuns[k].op = "confirm"
  /\ importStatus' = [type |-> "error", message |-> <<"Erro ao gravar dados.">>]
  /\ loading' = FALSE
  /\ isProcessingImport' = FALSE
  /\ importRuns' = Without(importRuns, k)
  /\ lastOp' = "confirm:failed"
  /\ UNCHANGED <<storeVars, loadedPieces, now, pecasFile, importErrors,
                 previewData, pendingData, statusTimers, pdfVars, scanVars,
                 lastRun, discarded, committed, appVars>>

\* setTimeout(() => setImportStatus({type: null, message: ''}), 5000)
StatusTimeout ==
  /\ statusTimers > 0
  /\ statusTimers' = statusTimers - 1
  /\ importStatus' = NoStatus
  /\ lastOp' = "timer"
  /\ UNCHANGED <<storeVars, loadedPieces, now, pecasFile, isProcessingImport,
                 loading, importErrors, previewData, pendingData, importRuns,
                 pdfVars, scanVars, lastRun, discarded, committed, appVars>>

StagedIds == IF pendingData = None THEN {}
             ELSE {pendingData[1].tempPecas[k].id : k \in 1..Len(pendingData[1].tempPecas)}

\* Variant: a cancel that closes the preview and keeps the staged data.
HandleCancelKeepsPending ==
  /\ previewData' = None
  /\ pecasFile' = None
  /\ importErrors' = <<>>
  /\ importStatus' = NoStatus
  /\ lastRun' = None
  /\ discarded' = discarded
  /\ lastOp' = "cancel"
  /\ UNCHANGED <<storeVars, loadedPieces, now, isProcessingImport, loading,
                 pendingData, importRuns, statusTimers, pdfVars, scanVars, committed, appVars>>

\* handleCancel (lines 1886-1892)
HandleCancel ==
  /\ previewData' = None
  /\ pendingData' = None
  /\ pecasFile' = None
  /\ importErrors' = <<>>
  /\ importStatus' = NoStatus
  /\ lastRun' = None
  /\ discarded' = discarded \cup StagedIds
  /\ lastOp' = "cancel"
  /\ UNCHANGED <<storeVars, loadedPieces, now, isProcessingImport, loading,
                 importRuns, statusTimers, pdfVars, scanVars, committed, appVars>>

\* onSnapshot(qPieces, s => setPieces(...)): the pieces of the workspace as
\* the store holds them now (lines 3277-3289).
PiecesSnapshot ==
  LET mine == {id \in DOMAIN pieces : pieces[id].workspaceId = WS}
  IN  /\ loadedPieces # [id \in mine |-> pieces[id]]
      /\ loadedPieces' = [id \in mine |-> pieces[id]]
      /\ lastOp' = "snapshot"
      /\ UNCHANGED <<storeVars, now, csvVars, pdfVars, scanVars, lastRun, discarded, committed, appVars>>

-----------------------------------------------------------------------------
(* handleScan of ProducaoComponent, one instance per logged-in session.    *)

Sessions == {"u1", "u2"}     \* currentUser.login_id of each session

IsBarcodeChar(c) == c \in Letters \cup Digits \cup {"-", "_"}

MaxBarcodeLength == 100

\* String.prototype.substring(0, n)
Take(s, n) == SubSeq(s, 1, IF Len(s) < n THEN Len(s) ELSE n)

sanitizeBarcode(barcode) ==
  ToUpperCase(Trim(Take(SelectSeq(barcode, IsBarcodeChar), MaxBarcodeLength)))

ScanCodes == { <<"a", "b", "1">>, <<"A", "B", "!">>, <<"A", "B", "9">> }

ScanMsg(type, text) == [type |-> type, text |-> text]

\* handleScan up to 'await getDoc(ref)' (lines 970-986).
HandleScan(s, barcode) ==
  LET sanitized == sanitizeBarcode(barcode)
  IN  IF sanitized = <<>> \/ Len(sanitized) < 3 THEN
        /\ lastMsg' = [lastMsg EXCEPT ![s] = ScanMsg("error", "Codigo invalido")]
        /\ lastOp' = "scan:invalid"
        /\ UNCHANGED <<storeVars, loadedPieces, now, csvVars, pdfVars,
                       isScanning, scanRuns, lastRun, discarded, committed, appVars>>
      ELSE IF isScanning[s] THEN
        /\ lastOp' = "scan:ignored"
        /\ UNCHANGED <<storeVars, loadedPieces, now, csvVars, pdfVars, scanVars,
                       lastRun, discarded, committed, appVars>>
      ELSE
        /\ isScanning' = [isScanning EXCEPT ![s] = TRUE]
        /\ scanRuns' = Append(scanRuns, [session |-> s, ref |-> PieceId(WS, sanitized),
                                         at |-> 0, awaits |-> "getDoc"])
        /\ lastOp' = "scan:start"
        /\ UNCHANGED <<storeVars, loadedPieces, now, csvVars, pdfVars, lastMsg,
                       lastRun, discarded, committed, appVars>>

\* getDoc resolves for run k (lines 988-1012): the piece is missing or already
\* produced and the run ends, or updateDoc is issued with the time of now.
ScanGetDoc(k) ==
  /\ k \in 1..Len(scanRuns)
  /\ scanRuns[k].awaits = "getDoc"
  /\ LET s == scanRuns[k].session
         ref == scanRuns[k].ref
     IN  IF ref \notin DOMAIN pieces THEN
           /\ lastMsg' = [lastMsg EXCEPT ![s] = ScanMsg("error", "Peca nao encontrada")]
           /\ isScanning' = [isScanning EXCEPT ![s] = FALSE]
           /\ scanRuns' = Without(scanRuns, k)
           /\ lastOp' = "scan:missing"
           /\ UNCHANGED now
         ELSE IF pieces[ref].status = "PRODUZIDA" THEN
           /\ lastMsg' = [lastMsg EXCEPT ![s] = ScanMsg("error", "Esta peca ja foi bipada!")]
           /\ isScanning' = [isScanning EXCEPT ![s] = FALSE]
           /\ scanRuns' = Without(scanRuns, k)
           /\ lastOp' = "scan:rejected"
           /\ UNCHANGED now
         ELSE
           /\ now <= MaxClock
           /\ scanRuns' = [scanRuns EXCEPT ![k].awaits = "updateDoc", ![k].at = now]
           /\ now' = now + 1
           /\ lastOp' = "scan:update"
           /\ UNCHANGED <<lastMsg, isScanning>>
  /\ UNCHANGED <<storeVars, loadedPieces, csvVars, pdfVars, lastRun, discarded, committed, appVars>>

\* updateDoc resolves for run k: the write, lines 1014-1018 and the finally.
ScanUpdateDoc(k) ==
  /\ k \in 1..Len(scanRuns)
  /\ scanRuns[k].awaits = "updateDoc"
  /\ scanRuns[k].ref \in DOMAIN pieces
  /\ LET s == scanRuns[k].session
         ref == scanRuns[k].ref
     IN  /\ pieces' = [pieces EXCEPT ![ref] =
                         [@ EXCEPT !.status = "PRODUZIDA",
                                   !.producedAt = scanRuns[k].at,
                                   !.producedBy = s,
                                   !.scanHistory = @ \cup {[type |-> "SCAN",
                                                            at |-> scanRuns[k].at,
                                                            user |-> s]}]]
         /\ lastMsg' = [lastMsg EXCEPT ![s] = ScanMsg("success", "SUCESSO")]
         /\ isScanning' = [isScanning EXCEPT ![s] = FALSE]
  /\ scanRuns' = Without(scanRuns, k)
  /\ lastOp' = "scan:done"
  /\ UNCHANGED <<projects, loadedPieces, now, csvVars, pdfVars, lastRun, discarded, committed, appVars>>

\* getDoc or updateDoc rejects for run k: the catch block (lines 1020-1024)
\* and the finally.
ScanFail(k) ==
  /\ k \in 1..Len(scanRuns)
  /\ LET s == scanRuns[k].session
     IN  /\ lastMsg' = [lastMsg EXCEPT ![s] = ScanMsg("error", "Erro ao processar bipagem.")]
         /\ isScanning' = [isScanning EXCEPT ![s] = FALSE]
  /\ scanRuns' = Without(scanRuns, k)
  /\ lastOp' = "scan:failed"
  /\ UNCHANGED <<storeVars, loadedPieces, now, csvVars, pdfVars, lastRun, discarded, committed, appVars>>

-----------------------------------------------------------------------------
(* processPdfFile: the label cells of a Promob PDF.                        *)
(* The text of a cell is a sequence of characters in which each keyword    *)
(* of the label layout is one element: the field labels, which end in a    *)
(* colon, the words Chapa and Medidas, and a measurement such as           *)
(* '10 x 20 mm'.  The ordinary characters spell none of them.              *)

LblCliente == "Cliente:"
LblProjeto == "Projeto:"
LblModulo  == "Modulo:"
LblPeca    == "Peca:"
LblObs     == "obs:"
LblCod     == "Cod. Item:"
WordChapa   == "Chapa"
WordMedidas == "Medidas"
Measure     == "10 x 20 mm"

\* The elements that contain a colon: [^:] matches none of them.
HasColon(c) == c \in {LblCliente, LblProjeto, LblModulo, LblPeca, LblObs, LblCod}

\* The lookahead of each regular expression (lines 1966-1971): the keywords
\* that may follow the captured value.
StopsOf(label) ==
  CASE label = LblCliente -> {LblProjeto, LblModulo, LblPeca, LblObs, WordChapa, LblCod}
    [] label = LblProjeto -> {LblModulo, LblPeca, LblObs, WordChapa, LblCod}
    [] label = LblModulo  -> {LblPeca, LblObs, WordChapa, LblCod}
    [] label = LblPeca    -> {LblObs, WordChapa, LblCod}
    [] label = LblObs     -> {WordChapa, LblCod}
    [] label = LblCod     -> {WordMedidas}

\* (?=\s*(?:stop|$)) at position i of t
RECURSIVE Lookahead(_, _, _)
Lookahead(t, i, stops) ==
  IF i > Len(t) THEN TRUE
  ELSE IF IsSpace(t[i]) THEN Lookahead(t, i + 1, stops)
  ELSE t[i] \in stops

\* [^:]+? from position from to position to, followed by the lookahead
CaptureOk(t, from, to, stops) ==
  /\ from <= to
  /\ to <= Len(t)
  /\ \A i \in from..to : ~HasColon(t[i])
  /\ Lookahead(t, to + 1, stops)

\* The number of white-space characters of t from position i on
RECURSIVE SpacesAt(_, _)
SpacesAt(t, i) ==
  IF i <= Len(t) /\ IsSpace(t[i]) THEN 1 + SpacesAt(t, i + 1) ELSE 0

\* The starts the engine tries for the capture after the label at j: \s* is
\* greedy and gives characters back one at a time.
StartsAfter(t, j, stops) ==
  {from \in (j + 1)..(j + 1 + SpacesAt(t, j + 1)) :
     \E to \in from..Len(t) : CaptureOk(t, from, to, stops)}

Max(S) == CHOOSE x \in S : \A y \in S : y <= x
Min(S) == CHOOSE x \in S : \A y \in S : x <= y

CaptureFrom(t, from, stops) ==
  SubSeq(t, from, Min({to \in from..Len(t) : CaptureOk(t, from, to, stops)}))

\* The positions of the label at which the expression matches
MatchesAt(t, label) ==
  {j \in 1..Len(t) : t[j] = label /\ StartsAfter(t, j, StopsOf(label)) # {}}

\* fullText.match(/label:\s*([^:]+?)(?=\s*(?:stops|$))/i): None, or the
\* captured group of the leftmost match.
RegexMatch(t, label) ==
  IF MatchesAt(t, label) = {} THEN None
  ELSE Some(CaptureFrom(t, Max(StartsAfter(t, Min(MatchesAt(t, label)), StopsOf(label))),
                        StopsOf(label)))

\* match ? match[1] : ''
GroupOr(m) == IF m = None THEN <<>> ELSE m[1]

\* The measurement expression of line 1972: the first measurement of the text.
MedidasMatch(t) ==
  IF \E i \in 1..Len(t) : t[i] = Measure THEN <<Measure>> ELSE <<>>

\* rawItem of lines 1974-1988
RawItem(t) ==
  [cliente |-> GroupOr(RegexMatch(t, LblCliente)),
   projeto |-> GroupOr(RegexMatch(t, LblProjeto)),
   modulo  |-> GroupOr(RegexMatch(t, LblModulo)),
   peca    |-> GroupOr(RegexMatch(t, LblPeca)),
   obs     |-> GroupOr(RegexMatch(t, LblObs)),
   codItem |-> Trim(GroupOr(RegexMatch(t, LblCod))),
   medidas |-> MedidasMatch(t)]

\* if (!rawCod && !pecaMatch) return: the cell is no label
IsLabelCell(t) == Trim(GroupOr(RegexMatch(t, LblCod))) # <<>> \/ RegexMatch(t, LblPeca) # None

\* String.prototype.endsWith
EndsWith(s, suffix) ==
  /\ Len(suffix) <= Len(s)
  /\ SubSeq(s, Len(s) - Len(suffix) + 1, Len(s)) = suffix

\* pieces.some(p => p.id.endsWith(String(validData.codItem || '')))
IsDuplicate(pieceIds, codItem) == \E id \in pieceIds : EndsWith(id, codItem)

IssueMessages(issues) == [k \in 1..Len(issues) |-> issues[k].message]

\* The PromobItem of lines 2004-2024; randomUUID is left out, an item is
\* known by its place in promobItems.
PromobItemOf(validation, validData, duplicate) ==
  [cliente |-> Trim(validData.cliente),
   projeto |-> Trim(validData.projeto),
   modulo  |-> Trim(validData.modulo),
   peca    |-> Trim(validData.peca),
   obs     |-> Trim(validData.obs),
   codItem |-> Trim(validData.codItem),
   medidas |-> Trim(validData.medidas),
   isValid |-> validation.success /\ ~duplicate,
   errors  |-> IssueMessages(validation.issues)
                 \o (IF duplicate THEN <<"Codigo ja existe no sistema">> ELSE <<>>)]

NoCell == [items |-> <<>>, errors |-> <<>>]

\* Lines 1990-2026 for the raw item of one cell of page i.
CellOfValidation(validation, validData, i, pieceIds) ==
  [items  |-> <<PromobItemOf(validation, validData,
                             IsDuplicate(pieceIds, validData.codItem))>>,
   errors |-> [k \in 1..Len(validation.issues) |->
                 mapZodErrorToImportError(validation.issues[k], i, "PDF")]]

CellOfRaw(rawItem, validation, i, pieceIds) ==
  CellOfValidation(validation,
                   IF validation.success THEN validation.data ELSE rawItem,
                   i, pieceIds)

\* One pass of cells.forEach (lines 1961-2027) for the text items of a cell.
ProcessCell(cellLines, i, pieceIds, refineOnDirty) ==
  IF cellLines = <<>> \/ ~IsLabelCell(Join(cellLines, " ")) THEN NoCell
  ELSE CellOfRaw(RawItem(Join(cellLines, " ")),
                 PdfItemSchema(RawItem(Join(cellLines, " ")), refineOnDirty),
                 i, pieceIds)

CellStep(acc, c) ==
  [items |-> acc.items \o c.items, errors |-> acc.errors \o c.errors]

RECURSIVE CellLoop(_, _, _, _, _, _)
CellLoop(cells, n, i, pieceIds, refineOnDirty, acc) ==
  IF n > Len(cells) THEN acc
  ELSE CellLoop(cells, n + 1, i, pieceIds, refineOnDirty,
                CellStep(acc, ProcessCell(cells[n], i, pieceIds, refineOnDirty)))

\* The error of a page that cannot be read (lines 2028-2037).
PageError(i) ==
  [type       |-> "PDF_LAYOUT_UNEXPECTED",
   message    |-> "Erro ao processar pagina",
   severity   |-> "ERROR",
   lineNumber |-> 0,
   pageNumber |-> i,
   field      |-> Null]

\* One pass of the page loop: a page that throws adds its error and keeps
\* what the earlier pages gave.
ProcessPage(page, i, pieceIds, refineOnDirty, acc) ==
  IF page.broken THEN [acc EXCEPT !.errors = Append(@, PageError(i))]
  ELSE CellLoop(page.cells, 1, i, pieceIds, refineOnDirty, acc)

RECURSIVE PageLoop(_, _, _, _, _)
PageLoop(pages, i, pieceIds, refineOnDirty, acc) ==
  IF i > Len(pages) THEN acc
  ELSE PageLoop(pages, i + 1, pieceIds, refineOnDirty,
                ProcessPage(pages[i], i, pieceIds, refineOnDirty, acc))

\* Lines 2040-2049: the state the extraction leaves.
PdfOutcomeOf(res) ==
  [promobItems     |-> res.items,
   pdfGlobalErrors |-> res.errors,
   pdfStatus       |->
     IF Len(res.errors) > 0
     THEN [type |-> "error", message |-> <<"Extracao concluida com problemas", Len(res.errors)>>]
     ELSE IF Len(res.items) = 0
     THEN [type |-> "error", message |-> <<"Nenhuma etiqueta encontrada.">>]
     ELSE [type |-> "success", message |-> <<"etiquetas extraidas com sucesso", Len(res.items)>>]]

PdfOutcome(pages, pieceIds, refineOnDirty) ==
  PdfOutcomeOf(PageLoop(pages, 1, pieceIds, refineOnDirty, NoCell))

\* The cells of the label catalogue, each as the text items of the cell.
CellText(c) ==
  CASE c = "ok"    -> << <<LblCliente, " ", "A", "c">>, <<LblProjeto, " ", "Q">>,
                         <<LblPeca, " ", "P">>, <<LblCod, " ", "A", "B", "1">> >>
    [] c = "short" -> << <<LblCliente, " ", "A", "c">>, <<LblPeca, " ", "P">>,
                         <<LblCod, " ", "A", "B">> >>
    [] c = "nocod" -> << <<LblCliente, " ", "A", "c">>, <<LblPeca, " ", "P">> >>
    [] c = "decor" -> << <<"x">> >>
    [] c = "nocli" -> << <<LblPeca, " ", "P">>, <<LblCod, " ", "A", "B", "2">>,
                         <<WordMedidas, " ", Measure>> >>
    [] c = "lower" -> << <<LblCliente, " ", "A", "c">>, <<LblPeca, " ", "P">>,
                         <<LblCod, " ", "a", "b", "1">> >>
    [] c = "tail"  -> << <<LblCliente, " ", "A", "c">>, <<LblPeca, " ", "P">>,
                         <<LblCod, " ", "s", "_", "A", "B", "1">> >>
    [] c = "fresh" -> << <<LblCliente, " ", "B", "o">>, <<LblProjeto, " ", "Q">>,
                         <<LblPeca, " ", "P">>, <<LblCod, " ", "A", "B", "3">> >>
    [] c = "slash" -> << <<LblCliente, " ", "B", "o">>, <<LblProjeto, " ", "Q", "/", "K">>,
                         <<LblPeca, " ", "P">>, <<LblCod, " ", "A", "B", "4">> >>
    [] c = "dash"  -> << <<LblCliente, " ", "A", "c">>, <<LblPeca, " ", "P">>,
                         <<LblCod, " ", "-", "-", "-">> >>

PdfCells == {"ok", "short", "nocod", "decor", "nocli"}

\* The cells of the labels printed for a workspace that already holds the
\* piece AB1: for the review and the saving, and for the duplicate test.
SaveCells == {"ok", "nocli", "fresh", "slash", "dash"}
DupCells == {"ok", "nocod", "lower", "tail", "fresh"}

PageOf(cells) == [broken |-> FALSE, cells |-> [k \in 1..Len(cells) |-> CellText(cells[k])]]

BrokenPage == [broken |-> TRUE, cells |-> <<>>]

\* The PDF files the operator can choose: a page of labels, a file whose
\* first page cannot be read, and files that do not open.
PdfFiles ==
  {[open |-> "ok", pages |-> <<PageOf(cells)>>] : cells \in SeqsUpTo(PdfCells, MaxCells)}
    \cup {[open |-> "ok", pages |-> <<BrokenPage, PageOf(<<"short">>)>>],
          [open |-> "corrupt", pages |-> <<>>],
          [open |-> "password", pages |-> <<>>]}

\* The guard of processPdfFile (line 1896): TRUE when the call goes on.
PdfGuard == pdfFile # None /\ ~isProcessingPdf

\* processPdfFile up to its first await (lines 1895-1903); the callback reads
\* the pieces of the render that created it.
ProcessPdfFile ==
  IF ~PdfGuard THEN
    /\ lastOp' = "pdf:ignored"
    /\ UNCHANGED <<storeVars, loadedPieces, now, csvVars, pdfVars, scanVars,
                   lastRun, discarded, committed, appVars>>
  ELSE
    /\ isProcessingPdf' = TRUE
    /\ pdfStatus' = NoStatus
    /\ pdfGlobalErrors' = <<>>
    /\ promobItems' = <<>>
    /\ pdfRuns' = Append(pdfRuns, [op |-> "extract", file |-> pdfFile[1],
                                   pieces |-> DOMAIN loadedPieces])
    /\ lastOp' = "pdf:start"
    /\ UNCHANGED <<storeVars, loadedPieces, now, csvVars, pdfFile, showSuccessToast, toastTimers, scanVars,
                   lastRun, discarded, committed, appVars>>

\* getDocument rejects for run k (lines 1909-1927), then the outer catch and
\* the finally block.
PdfOpenFail(k) ==
  /\ k \in 1..Len(pdfRuns)
  /\ pdfRuns[k].op = "extract"
  /\ pdfRuns[k].file.open # "ok"
  /\ pdfGlobalErrors' =
       <<IF pdfRuns[k].file.open = "password"
         THEN ImportError("PDF_PASSWORD_PROTECTED", "PDF protegido por senha.", "CRITICAL")
         ELSE ImportError("PDF_CORRUPTED", "Erro ao abrir PDF.", "CRITICAL")>>
  /\ pdfStatus' = [type |-> "error", message |-> <<"Erro fatal">>]
  /\ isProcessingPdf' = FALSE
  /\ pdfRuns' = Without(pdfRuns, k)
  /\ lastOp' = "pdf:openfailed"
  /\ UNCHANGED <<storeVars, loadedPieces, now, csvVars, pdfFile, showSuccessToast, toastTimers, promobItems,
                 scanVars, lastRun, discarded, committed, appVars>>

\* loadPdfJs or arrayBuffer rejects for run k: the outer catch (lines
\* 2051-2053) and the finally block.
PdfLoadFail(k) ==
  /\ k \in 1..Len(pdfRuns)
  /\ pdfRuns[k].op = "extract"
  /\ pdfStatus' = [type |-> "error", message |-> <<"Erro fatal">>]
  /\ isProcessingPdf' = FALSE
  /\ pdfRuns' = Without(pdfRuns, k)
  /\ lastOp' = "pdf:loadfailed"
  /\ UNCHANGED <<storeVars, loadedPieces, now, csvVars, pdfFile, showSuccessToast, toastTimers, promobItems,
                 pdfGlobalErrors, scanVars, lastRun, discarded, committed, appVars>>

\* The state a finished extraction leaves (lines 2040-2049).
PdfApply(out) ==
  /\ promobItems' = out.promobItems
  /\ pdfGlobalErrors' = out.pdfGlobalErrors
  /\ pdfStatus' = out.pdfStatus

\* The document opens for run k: the page loop (lines 1929-2049) and the
\* finally block.
PdfExtract(k) ==
  /\ k \in 1..Len(pdfRuns)
  /\ pdfRuns[k].op = "extract"
  /\ pdfRuns[k].file.open = "ok"
  /\ \E refineOnDirty \in BOOLEAN :
       PdfApply(PdfOutcome(pdfRuns[k].file.pages, pdfRuns[k].pieces, refineOnDirty))
  /\ isProcessingPdf' = FALSE
  /\ pdfRuns' = Without(pdfRuns, k)
  /\ lastOp' = "pdf:done"
  /\ UNCHANGED <<storeVars, loadedPieces, now, csvVars, pdfFile, showSuccessToast, toastTimers, scanVars,
                 lastRun, discarded, committed, appVars>>

-----------------------------------------------------------------------------
(* updatePromobItem and savePromobData.                                    *)

\* The fields of the review grid that have an input (lines 2566-2585); the
\* input of codItem is read-only.
GridFields == {"cliente", "projeto", "modulo", "peca", "obs", "medidas"}

\* if (!res.success) newErrors.push(res.error.issues[0].message)
FirstMessage(issues) == IF issues = <<>> THEN <<>> ELSE <<issues[1].message>>

\* The item updatePromobItem returns for the edited row (lines 2063-2080);
\* cli is ClientNameSchema.safeParse(value).
EditedItem(item, field, value, cli) ==
  [[item EXCEPT ![field] = value] EXCEPT
     !.errors =
        SelectSeq(item.errors,
                  LAMBDA e : e \notin {"Cliente muito curto", "Nome do cliente muito curto"})
          \o (IF field = "cliente" THEN FirstMessage(cli.issues) ELSE <<>>),
     !.isValid =
        SelectSeq(item.errors,
                  LAMBDA e : e \notin {"Cliente muito curto", "Nome do cliente muito curto"})
          \o (IF field = "cliente" THEN FirstMessage(cli.issues) ELSE <<>>)
          = <<>>]

\* updatePromobItem(id, field, value) for the item at place k.
UpdatePromobItem(k, field, value) ==
  /\ k \in 1..Len(promobItems)
  /\ field \in GridFields
  /\ promobItems' =
       [promobItems EXCEPT
          ![k] = EditedItem(promobItems[k], field, value, ClientNameSchema("cliente", value))]
  /\ lastOp' = "pdfedit"
  /\ UNCHANGED <<storeVars, loadedPieces, now, csvVars, pdfFile, isProcessingPdf,
                 pdfStatus, pdfGlobalErrors, pdfRuns, showSuccessToast, toastTimers,
                 scanVars, lastRun, discarded, committed, appVars>>

\* !item.cliente || item.cliente.trim() === ''
NoClient(item) == Trim(item.cliente) = <<>>

\* The final validation of one item (lines 2090-2108): isValid and errors
\* are computed afresh from PdfItemSchema and the client check.
RevalidatedItem(item, validation) ==
  [item EXCEPT
     !.errors = IssueMessages(validation.issues)
                  \o (IF NoClient(item) THEN <<"Nome do cliente e obrigatorio">> ELSE <<>>),
     !.isValid = validation.success /\ ~NoClient(item)]

Revalidated(items, refineOnDirty) ==
  [k \in 1..Len(items) |->
     RevalidatedItem(items[k], PdfItemSchema(items[k], refineOnDirty))]

IsAlphaNumeric(c) == c \in Letters \cup Digits

\* item.codItem.replace(/[^a-zA-Z0-9]/g, '').toUpperCase()
PdfBarcode(codItem) == ToUpperCase(SelectSeq(codItem, IsAlphaNumeric))

ProjetoPromob == <<"P", "r", "o", "j", "e", "t", "o", " ", "P", "r", "o", "m", "o", "b">>
ClientePromob == <<"C", "l", "i", "e", "n", "t", "e", " ", "P", "r", "o", "m", "o", "b">>

PdfProjName(item) == OrElse(OrElse(item.projeto, item.modulo), ProjetoPromob)
PdfClientName(item) == OrElse(item.cliente, ClientePromob)

\* The project document of an item (lines 2141-2154).
PdfProjectDoc(item, ws, at) ==
  [id           |-> ProjId(PdfClientName(item) \o <<"_">> \o PdfProjName(item)),
   workspaceId  |-> ws,
   project_name |-> PdfProjName(item),
   client_name  |-> PdfClientName(item),
   client_code  |-> <<>>,
   status       |-> "PRODUCAO",
   created_at   |-> at,
   module_dimensions |-> <<>>]

\* The piece document of an item (lines 2135-2169).
PdfPieceDoc(item, ws) ==
  [id          |-> ws \o <<"_">> \o PdfBarcode(item.codItem),
   workspaceId |-> ws,
   nome        |-> OrElse(item.peca, <<"P", "e", "c", "a", " ">> \o PdfBarcode(item.codItem)),
   modulo      |-> item.modulo,
   projeto     |-> PdfProjName(item),
   cliente     |-> PdfClientName(item),
   medidas     |-> item.medidas,
   material    |-> <<>>,
   cor         |-> <<>>,
   status      |-> "PENDENTE",
   producedAt  |-> 0,
   producedBy  |-> Null,
   scanHistory |-> {}]

\* if (!newProjects.has(projId)): the first document of each id, in order.
RECURSIVE FirstById(_, _)
FirstById(docs, seen) ==
  IF docs = <<>> THEN <<>>
  ELSE IF Head(docs).id \in seen THEN FirstById(Tail(docs), seen)
  ELSE <<Head(docs)>> \o FirstById(Tail(docs), seen \cup {Head(docs).id})

\* if (!barcode) return
WithBarcode(items) == SelectSeq(items, LAMBDA it : PdfBarcode(it.codItem) # <<>>)

PdfBatchOf(items, ws, at) ==
  [projects |-> FirstById([k \in 1..Len(items) |-> PdfProjectDoc(items[k], ws, at)], {}),
   pieces   |-> [k \in 1..Len(items) |-> PdfPieceDoc(items[k], ws)]]

\* The documents the batch of savePromobData sets (lines 2131-2170).
PdfBatch(validItems, ws, at) == PdfBatchOf(WithBarcode(validItems), ws, at)

AllValid(items) == \A k \in 1..Len(items) : items[k].isValid

\* doc(db, 'artifacts', appId, 'public', 'data', collection, id) throws for an
\* id that does not stand for one path segment: the id is split on "/", an
\* empty segment between two slashes is refused, and the five fixed segments
\* and those of the id must make an even number.
InvalidDocId(id) ==
  \/ \E i \in 1..(Len(id) - 1) : id[i] = "/" /\ id[i + 1] = "/"
  \/ Len(SelectSeq(Split(id, "/"), LAMBDA part : part # <<>>)) % 2 = 0

\* Some doc(...) call of validItems.forEach (lines 2143, 2158) throws.
BatchThrows(validItems, ws) ==
  \E k \in 1..Len(WithBarcode(validItems)) :
    \/ InvalidDocId(PdfProjectDoc(WithBarcode(validItems)[k], ws, 0).id)
    \/ InvalidDocId(PdfPieceDoc(WithBarcode(validItems)[k], ws).id)

\* savePromobData on the revalidated items, from line 2110 to the await.
SaveItems(updatedItems) ==
  /\ promobItems' = updatedItems
  /\ IF ~AllValid(updatedItems) THEN
       /\ lastOp' = "pdfsave:invalid"
       /\ UNCHANGED <<isProcessingPdf, pdfRuns, now>>
     ELSE IF updatedItems = <<>> THEN
       /\ lastOp' = "pdfsave:empty"
       /\ UNCHANGED <<isProcessingPdf, pdfRuns, now>>
     ELSE IF BatchThrows(updatedItems, WS) THEN
       \* the exception leaves the handler before the try block of line 2172
       /\ isProcessingPdf' = TRUE
       /\ lastOp' = "pdfsave:threw"
       /\ UNCHANGED <<pdfRuns, now>>
     ELSE
       /\ now <= MaxClock
       /\ isProcessingPdf' = TRUE
       /\ pdfRuns' = Append(pdfRuns, [op |-> "save", batch |-> PdfBatch(updatedItems, WS, now)])
       /\ now' = now + 1
       /\ lastOp' = "pdfsave:start"

\* savePromobData up to 'await batch.commit()' (lines 2086-2173).
SavePromobData ==
  IF isProcessingPdf THEN
    /\ lastOp' = "pdfsave:ignored"
    /\ UNCHANGED <<storeVars, loadedPieces, now, csvVars, pdfVars, scanVars,
                   lastRun, discarded, committed, appVars>>
  ELSE
    /\ \E refineOnDirty \in BOOLEAN : SaveItems(Revalidated(promobItems, refineOnDirty))
    /\ UNCHANGED <<storeVars, loadedPieces, csvVars, pdfFile, pdfStatus,
                   pdfGlobalErrors, showSuccessToast, toastTimers, scanVars,
                   lastRun, discarded, committed, appVars>>

\* batch.commit() resolves for run k: the store takes the whole batch, then
\* lines 2174-2179 and the finally block.
PdfSaveCommit(k) ==
  /\ k \in 1..Len(pdfRuns)
  /\ pdfRuns[k].op = "save"
  /\ projects' = SetAll(projects, pdfRuns[k].batch.projects)
  /\ pieces' = SetAll(pieces, pdfRuns[k].batch.pieces)
  /\ showSuccessToast' = Some("Importacao Promob concluida!")
  /\ toastTimers' = toastTimers + 1
  /\ promobItems' = <<>>
  /\ pdfFile' = None
  /\ pdfStatus' = NoStatus
  /\ pdfGlobalErrors' = <<>>
  /\ isProcessingPdf' = FALSE
  /\ pdfRuns' = Without(pdfRuns, k)
  /\ lastOp' = "pdfsave:done"
  /\ UNCHANGED <<loadedPieces, now, csvVars, scanVars, lastRun, discarded, committed, appVars>>

\* batch.commit() rejects for run k: the catch block (lines 2180-2182) and
\* the finally block.
PdfSaveFail(k) ==
  /\ k \in 1..Len(pdfRuns)
  /\ pdfRuns[k].op = "save"
  /\ isProcessingPdf' = FALSE
  /\ pdfRuns' = Without(pdfRuns, k)
  /\ lastOp' = "pdfsave:failed"
  /\ UNCHANGED <<storeVars, loadedPieces, now, csvVars, pdfFile, promobItems,
                 pdfStatus, pdfGlobalErrors, showSuccessToast, toastTimers,
                 scanVars, lastRun, discarded, committed, appVars>>

\* setTimeout(() => setShowSuccessToast(null), 3000)
ToastTimeout ==
  /\ toastTimers > 0
  /\ toastTimers' = toastTimers - 1
  /\ showSuccessToast' = None
  /\ lastOp' = "toast"
  /\ UNCHANGED <<storeVars, loadedPieces, now, csvVars, pdfFile, promobItems,
                 isProcessingPdf, pdfStatus, pdfGlobalErrors, pdfRuns, scanVars,
                 lastRun, discarded, committed, appVars>>

-----------------------------------------------------------------------------
(* The App component of each browser: what the snapshot listeners have     *)
(* delivered, the logged-in user, and the state of the loading screen.     *)

EmptyDocs == [id \in {} |-> Null]

\* b1 and b2 run in the workspace of the administrator, b3 in another one.
Browsers == {"b1", "b2", "b3"}

\* getWorkspaceId() (lines 595-602): the value kept in localStorage.
getWorkspaceId(b) == IF b = "b3" THEN OtherWS ELSE WS

\* The useState declarations of App (lines 3201-3210) and of SaidaComponent.
FreshBrowser ==
  [users |-> EmptyDocs, projs |-> EmptyDocs, wares |-> EmptyDocs,
   pieces |-> EmptyDocs, vols |-> EmptyDocs,
   user |-> None, selClient |-> <<>>, showFinalizeModal |-> FALSE,
   lastScanMsg |-> Null, scanMsgTimers |-> 0, toast |-> None, toastTimers |-> 0]

\* where('workspaceId', '==', ws) over a collection
OfWorkspace(coll, ws) ==
  [id \in {i \in DOMAIN coll : coll[i].workspaceId = ws} |-> coll[id]]

\* DocumentReference.update / set with merge: the fields given replace those
\* of the document, the others stay.
Merge(d, upd) ==
  [f \in DOMAIN d \cup DOMAIN upd |-> IF f \in DOMAIN upd THEN upd[f] ELSE d[f]]

InitApp(userColl, whColl, volColl) ==
  /\ userDocs = userColl
  /\ warehouses = whColl
  /\ volumes = volColl
  /\ browser = [b \in Browsers |-> FreshBrowser]
  /\ shipRuns = <<>>

\* The store collection behind each listener of lines 3277-3281.
Collections == {"users", "projs", "wares", "pieces", "vols"}

StoreOf(c) ==
  CASE c = "users"  -> userDocs
    [] c = "projs"  -> projects
    [] c = "wares"  -> warehouses
    [] c = "pieces" -> pieces
    [] c = "vols"   -> volumes

\* The session check of lines 3236-3248, run after users or user changed.
SessionChecked(app) ==
  IF app.user = None \/ DOMAIN app.users = {} THEN app
  ELSE IF app.user[1].id \notin DOMAIN app.users THEN [app EXCEPT !.user = None]
  ELSE IF app.users[app.user[1].id].role # app.user[1].role
       THEN [app EXCEPT !.user = Some(app.users[app.user[1].id])]
  ELSE app

\* onSnapshot(q, s => set...(s.docs.map(d => d.data()))) of browser b for
\* collection c: the documents of its workspace as the store holds them now.
Snapshot(b, c) ==
  /\ browser[b][c] # OfWorkspace(StoreOf(c), getWorkspaceId(b))
  /\ browser' = [browser EXCEPT ![b] =
                   SessionChecked([@ EXCEPT ![c] = OfWorkspace(StoreOf(c), getWorkspaceId(b))])]
  /\ lastOp' = "snapshot"
  /\ UNCHANGED <<storeVars, loadedPieces, now, csvVars, pdfVars, scanVars,
                 lastRun, discarded, committed, userDocs, warehouses, volumes, shipRuns>>

\* The five listeners of browser b deliver one after the other, with no
\* handler of b in between.
SnapshotAll(b) ==
  /\ \E c \in Collections : browser[b][c] # OfWorkspace(StoreOf(c), getWorkspaceId(b))
  /\ browser' = [browser EXCEPT ![b] =
                   SessionChecked([f \in DOMAIN browser[b] |->
                     IF f \in Collections
                     THEN OfWorkspace(StoreOf(f), getWorkspaceId(b))
                     ELSE browser[b][f]])]
  /\ lastOp' = "snapshot"
  /\ UNCHANGED <<storeVars, loadedPieces, now, csvVars, pdfVars, scanVars,
                 lastRun, discarded, committed, userDocs, warehouses, volumes, shipRuns>>

-----------------------------------------------------------------------------
(* Login.handleLogin (lines 3294-3313).                                    *)

LowerChar(c) ==
  IF \E k \in 1..Len(UpperCase) : UpperCase[k] = c
  THEN LowerCase[CHOOSE k \in 1..Len(UpperCase) : UpperCase[k] = c]
  ELSE c

\* String.prototype.toLowerCase
ToLowerCase(s) == [i \in 1..Len(s) |-> LowerChar(s[i])]

\* s starts with the word w, letters compared without case.
StartsWithWord(s, w) ==
  Len(s) >= Len(w) /\ ToLowerCase(SubSeq(s, 1, Len(w))) = w

\* replace(/<[^>]*>?/gm, ''): from each "<" to the next ">", or to the end.
RECURSIVE RemoveTags(_)
RemoveTags(s) ==
  IF s = <<>> THEN <<>>
  ELSE IF Head(s) = "<" THEN RemoveTags(SubSeq(s, IndexOf(s, ">", 1) + 1, Len(s)))
  ELSE <<Head(s)>> \o RemoveTags(Tail(s))

JavascriptWord == <<"j", "a", "v", "a", "s", "c", "r", "i", "p", "t", ":">>

\* replace(/javascript:/gi, '')
RECURSIVE RemoveJavascript(_)
RemoveJavascript(s) ==
  IF s = <<>> THEN <<>>
  ELSE IF StartsWithWord(s, JavascriptWord)
       THEN RemoveJavascript(SubSeq(s, Len(JavascriptWord) + 1, Len(s)))
  ELSE <<Head(s)>> \o RemoveJavascript(Tail(s))

IsWordChar(c) == c \in Letters \cup Digits \cup {"_"}

\* The first position at or after i that holds no word character.
RECURSIVE WordEnd(_, _)
WordEnd(s, i) == IF i > Len(s) \/ ~IsWordChar(s[i]) THEN i ELSE WordEnd(s, i + 1)

\* /on\w+=/i matches at the head of s: "on", one word character or more, "=".
EventAtHead(s) ==
  /\ StartsWithWord(s, <<"o", "n">>)
  /\ WordEnd(s, 3) > 3
  /\ WordEnd(s, 3) <= Len(s)
  /\ s[WordEnd(s, 3)] = "="

\* replace(/on\w+=/gi, '')
RECURSIVE RemoveEvents(_)
RemoveEvents(s) ==
  IF s = <<>> THEN <<>>
  ELSE IF EventAtHead(s) THEN RemoveEvents(SubSeq(s, WordEnd(s, 3) + 1, Len(s)))
  ELSE <<Head(s)>> \o RemoveEvents(Tail(s))

ControlChars == {"\t", "\n", "\r"}

MaxInputLength == 500

\* sanitizeInput (lines 111-125)
sanitizeInput(input) ==
  Trim(Take(SelectSeq(RemoveEvents(RemoveJavascript(RemoveTags(input))),
                      LAMBDA c : c \notin ControlChars),
            MaxInputLength))

MasterId == <<"m", "a", "s", "t", "e", "r">>

\* The document of line 3307.
MasterDoc(ws, sanitizedId, sanitizedPass) ==
  [id |-> MasterId, workspaceId |-> ws, login_id |-> sanitizedId,
   password |-> sanitizedPass, role |-> "MASTER", auth_password_override |-> "1234"]

\* users.find(x => x.login_id.toLowerCase() === id.toLowerCase() &&
\* x.password === pass): the ids of the loaded users that match.
Matching(users, sanitizedId, sanitizedPass) ==
  {u \in DOMAIN users :
     /\ ToLowerCase(users[u].login_id) = ToLowerCase(sanitizedId)
     /\ users[u].password = sanitizedPass}

\* handleLogin of browser b, which shows the login form (line 3336).
HandleLogin(b, id, pass) ==
  /\ browser[b].user = None
  /\ LET sanitizedId == sanitizeInput(id)
         sanitizedPass == sanitizeInput(pass)
         users == browser[b].users
         found == Matching(users, sanitizedId, sanitizedPass)
     IN  IF DOMAIN users = {} THEN
           /\ userDocs' = SetOne(userDocs, MasterDoc(getWorkspaceId(b), sanitizedId, sanitizedPass))
           /\ lastOp' = "login:created"
           /\ UNCHANGED browser
         ELSE IF found # {} THEN
           /\ browser' = [browser EXCEPT ![b] =
                            SessionChecked([@ EXCEPT !.user = Some(users[CHOOSE u \in found : TRUE])])]
           /\ lastOp' = "login:ok"
           /\ UNCHANGED userDocs
         ELSE
           /\ lastOp' = "login:denied"
           /\ UNCHANGED <<userDocs, browser>>
  /\ UNCHANGED <<storeVars, loadedPieces, now, csvVars, pdfVars, scanVars,
                 lastRun, discarded, committed, warehouses, volumes, shipRuns>>

\* The button 'Sair' (line 3359).
Logout(b) ==
  /\ browser[b].user # None
  /\ browser' = [browser EXCEPT ![b].user = None]
  /\ lastOp' = "logout"
  /\ UNCHANGED <<storeVars, loadedPieces, now, csvVars, pdfVars, scanVars,
                 lastRun, discarded, committed, userDocs, warehouses, volumes, shipRuns>>

-----------------------------------------------------------------------------
(* Documents as the listeners deliver them: in the order of their ids.     *)

\* The characters of document ids, in the order of their codes.
CharOrder == <<"0", "1", "2", "3", "4", "5", "6", "7", "8", "9",
               "A", "B", "C", "E", "I", "J", "K", "L", "M", "N", "O", "P", "Q",
               "R", "S", "T", "V", "W", "X", "_",
               "a", "b", "c", "e", "h", "i", "j", "k", "l", "m", "n", "o", "p",
               "q", "r", "s", "t", "w", "x">>

CharRank(c) == CHOOSE k \in 1..Len(CharOrder) : CharOrder[k] = c

\* a comes before b in the order of the store.
RECURSIVE IdBefore(_, _)
IdBefore(a, b) ==
  IF b = <<>> THEN FALSE
  ELSE IF a = <<>> THEN TRUE
  ELSE IF Head(a) = Head(b) THEN IdBefore(Tail(a), Tail(b))
  ELSE CharRank(Head(a)) < CharRank(Head(b))

\* s.docs.map(d => d.data()): the documents of a collection as an array.
RECURSIVE DocsOf(_)
DocsOf(coll) ==
  IF DOMAIN coll = {} THEN <<>>
  ELSE LET first == CHOOSE i \in DOMAIN coll :
                      \A j \in DOMAIN coll \ {i} : IdBefore(i, j)
       IN  <<coll[first]>> \o DocsOf([i \in DOMAIN coll \ {first} |-> coll[i]])

\* Array.prototype.map(d => d.id) as a set
IdsOf(docs) == {docs[k].id : k \in 1..Len(docs)}

\* formatClientDisplay (lines 639-644)
formatClientDisplay(name, code) ==
  IF Trim(code) # <<>> THEN code \o <<" ", "-", " ">> \o name ELSE name

\* Number to text, as a template literal writes it.
RECURSIVE NumberText(_)
NumberText(n) ==
  IF n < 10 THEN <<CharOrder[n + 1]>>
  ELSE NumberText(n \div 10) \o <<CharOrder[(n % 10) + 1]>>

-----------------------------------------------------------------------------
(* ExpedicaoComponent.handleGenerate (lines 1138-1221).                    *)

\* clientProjects of ExpedicaoComponent (lines 1144-1150)
ExpClientProjects(app, selClient, ws) ==
  IF selClient = <<>> THEN <<>>
  ELSE SelectSeq(DocsOf(app.projs), LAMBDA p :
         /\ formatClientDisplay(p.client_name, p.client_code) = selClient
         /\ p.workspaceId = ws
         /\ p.status # "ARQUIVADO")

\* clientPecas (lines 1152-1156) and allPiecesProduced's clientPieces
ClientPieces(app, clientProjects, ws) ==
  {id \in DOMAIN app.pieces :
     /\ \E k \in 1..Len(clientProjects) :
          clientProjects[k].project_name = app.pieces[id].projeto
     /\ app.pieces[id].workspaceId = ws}

\* actualProdComplete (lines 1158-1160) and allPiecesProduced (2836-2842)
AllProduced(app, clientProjects, ws) ==
  /\ ClientPieces(app, clientProjects, ws) # {}
  /\ \A id \in ClientPieces(app, clientProjects, ws) :
       app.pieces[id].status = "PRODUZIDA"

\* clientVols (lines 1162-1165) and clientVolumes (2822-2826)
ClientVols(app, clientProjects, ws) ==
  {id \in DOMAIN app.vols :
     /\ app.vols[id].projectId \in IdsOf(clientProjects)
     /\ app.vols[id].workspaceId = ws}

\* The volume document of index i (lines 1198-1211)
VolumeDoc(ws, mainProjId, clientName, i, totalVols) ==
  [id          |-> ws \o <<"_">> \o mainProjId \o <<"_", "V", "O", "L", "_">> \o NumberText(i),
   workspaceId |-> ws,
   projectId   |-> mainProjId,
   index       |-> i,
   total       |-> totalVols,
   loaded      |-> FALSE,
   barcode     |-> ToUpperCase(clientName) \o <<"_", "V">> \o NumberText(i)]

\* users.find(u => u.role === 'MASTER')?.auth_password_override; the prompt
\* gives text or null, never undefined.
MasterPasswordIs(app, pass) ==
  \E u \in DOMAIN app.users :
    /\ app.users[u].role = "MASTER"
    /\ \A v \in DOMAIN app.users :
         app.users[v].role = "MASTER" => v = u \/ IdBefore(u, v)
    /\ app.users[u].auth_password_override = pass

\* wh?.status === 'OCUPADO' && !clientProjects.some(p => p.id === wh.current_project_id)
IsOccupiedByOther(app, selWh, clientProjects) ==
  /\ selWh \in DOMAIN app.wares
  /\ app.wares[selWh].status = "OCUPADO"
  /\ ~\E k \in 1..Len(clientProjects) :
        /\ "current_project_id" \in DOMAIN app.wares[selWh]
        /\ clientProjects[k].id = app.wares[selWh].current_project_id

\* The run of handleGenerate from line 1196 on, with what its closure holds.
GenerateRun(b, app, selWh, totalVols, clientProjects, ws, phase) ==
  [op       |-> "generate",
   phase    |-> phase,
   browser  |-> b,
   deletes  |-> ClientVols(app, clientProjects, ws),
   vols     |-> [i \in 1..totalVols |->
                   VolumeDoc(ws, clientProjects[1].id, clientProjects[1].client_name,
                             i, totalVols)],
   wh       |-> IF selWh \in DOMAIN app.wares THEN Some(selWh) ELSE None,
   selWh    |-> selWh,
   mainProjId |-> clientProjects[1].id,
   projIds  |-> [k \in 1..Len(clientProjects) |-> clientProjects[k].id]]

\* handleGenerate of browser b up to its first await; selClient, selWh and
\* totalVols are the values of the form, pass is the answer to the prompt.
GenerateChecked(b, app, selWh, totalVols, pass, clientProjects, ws) ==
  IF selWh = <<>> THEN
    lastOp' = "generate:nowh" /\ UNCHANGED shipRuns
  ELSE IF totalVols <= 0 THEN
    lastOp' = "generate:novols" /\ UNCHANGED shipRuns
  ELSE IF ~AllProduced(app, clientProjects, ws) THEN
    lastOp' = "generate:notproduced" /\ UNCHANGED shipRuns
  ELSE IF Len(clientProjects) = 0 THEN
    lastOp' = "generate:noproject" /\ UNCHANGED shipRuns
  ELSE IF IsOccupiedByOther(app, selWh, clientProjects) THEN
    lastOp' = "generate:occupied" /\ UNCHANGED shipRuns
  ELSE IF ClientVols(app, clientProjects, ws) # {} THEN
    IF ~MasterPasswordIs(app, pass) THEN
      lastOp' = "generate:password" /\ UNCHANGED shipRuns
    ELSE
      /\ shipRuns' = Append(shipRuns,
                       GenerateRun(b, app, selWh, totalVols, clientProjects, ws, "delete"))
      /\ lastOp' = "generate:deleting"
  ELSE
    /\ shipRuns' = Append(shipRuns,
                     GenerateRun(b, app, selWh, totalVols, clientProjects, ws, "commit"))
    /\ lastOp' = "generate:start"

MaxRuns == 1

HandleGenerate(b, selClient, selWh, totalVols, pass) ==
  /\ Len(shipRuns) < MaxRuns
  /\ browser[b].selClient = <<>>
  /\ ~browser[b].showFinalizeModal
  /\ GenerateChecked(b, browser[b], selWh, totalVols, pass,
                     ExpClientProjects(browser[b], selClient, getWorkspaceId(b)),
                     getWorkspaceId(b))
  /\ UNCHANGED <<storeVars, loadedPieces, now, csvVars, pdfVars, scanVars,
                 lastRun, discarded, committed, userDocs, warehouses, volumes, browser>>

\* batchDel.commit() resolves for run k (line 1194): the volumes of the
\* client are gone, and the batch of lines 1197-1219 is submitted.
GenerateDeleted(k) ==
  /\ k \in 1..Len(shipRuns)
  /\ shipRuns[k].op = "generate"
  /\ shipRuns[k].phase = "delete"
  /\ volumes' = [id \in DOMAIN volumes \ shipRuns[k].deletes |-> volumes[id]]
  /\ shipRuns' = [shipRuns EXCEPT ![k].phase = "commit"]
  /\ lastOp' = "generate:deleted"
  /\ UNCHANGED <<storeVars, loadedPieces, now, csvVars, pdfVars, scanVars,
                 lastRun, discarded, committed, userDocs, warehouses, browser>>

\* batch.update needs its document: the batch is refused without it.
UpdatesExist(run) ==
  /\ run.wh # None => run.selWh \in DOMAIN warehouses
  /\ \A k \in 1..Len(run.projIds) : run.projIds[k] \in DOMAIN projects

\* batch.commit() resolves for run k (line 1219): the volumes are set, the
\* warehouse and the projects of the client updated.
GenerateCommit(k) ==
  /\ k \in 1..Len(shipRuns)
  /\ shipRuns[k].op = "generate"
  /\ shipRuns[k].phase = "commit"
  /\ UpdatesExist(shipRuns[k])
  /\ volumes' = SetAll(volumes, shipRuns[k].vols)
  /\ warehouses' =
       IF shipRuns[k].wh = None THEN warehouses
       ELSE [warehouses EXCEPT ![shipRuns[k].selWh] =
               Merge(@, [status |-> "OCUPADO",
                         current_project_id |-> shipRuns[k].mainProjId])]
  /\ projects' =
       [id \in DOMAIN projects |->
          IF \E j \in 1..Len(shipRuns[k].projIds) : shipRuns[k].projIds[j] = id
          THEN Merge(projects[id], [status |-> "CARREGANDO",
                                    warehouse_id |-> shipRuns[k].selWh])
          ELSE projects[id]]
  /\ shipRuns' = Without(shipRuns, k)
  /\ lastOp' = "generate:done"
  /\ UNCHANGED <<pieces, loadedPieces, now, csvVars, pdfVars, scanVars,
                 lastRun, discarded, committed, userDocs, browser>>

-----------------------------------------------------------------------------
(* SaidaComponent (lines 2783-2940).                                       *)

\* clientProjects of SaidaComponent (lines 2813-2819)
SaidaClientProjects(app, ws) ==
  IF app.selClient = <<>> THEN <<>>
  ELSE SelectSeq(DocsOf(app.projs), LAMBDA p :
         /\ formatClientDisplay(p.client_name, p.client_code) = app.selClient
         /\ p.workspaceId = ws
         /\ p.status \in {"CARREGANDO", "PRODUCAO"})

\* uniqueClients (lines 2804-2811): the options of the client select.
SaidaClients(app, ws) ==
  {formatClientDisplay(app.projs[id].client_name, app.projs[id].client_code) :
     id \in {i \in DOMAIN app.projs :
               /\ app.projs[i].workspaceId = ws
               /\ app.projs[i].status \in {"CARREGANDO", "PRODUCAO"}}} \ {<<>>}

\* pendingVolumes (lines 2832-2834)
PendingVolumes(app, clientProjects, ws) ==
  {id \in ClientVols(app, clientProjects, ws) : ~app.vols[id].loaded}

\* <select value={selClient} onChange={e => setSelClient(e.target.value)}>
\* (line 2971), behind the overlay while the dialog is open.
SelectClient(b, c) ==
  /\ ~browser[b].showFinalizeModal
  /\ c \in SaidaClients(browser[b], getWorkspaceId(b)) \cup {<<>>}
  /\ c # browser[b].selClient
  /\ browser' = [browser EXCEPT ![b].selClient = c]
  /\ lastOp' = "select:client"
  /\ UNCHANGED <<storeVars, loadedPieces, now, csvVars, pdfVars, scanVars,
                 lastRun, discarded, committed, userDocs, warehouses, volumes, shipRuns>>

MaxTimers == 1

\* handleScanVolume (lines 2844-2868) with the write of its updateDoc; the
\* update of a volume that is gone from the store is refused.
HandleScanVolume(b, barcode) ==
  LET app == browser[b]
      ws == getWorkspaceId(b)
      hits == {id \in ClientVols(app, SaidaClientProjects(app, ws), ws) :
                 app.vols[id].barcode = barcode}
      first == CHOOSE i \in hits : \A j \in hits \ {i} : IdBefore(i, j)
  IN  /\ ~app.showFinalizeModal
      /\ IF hits = {} THEN
           /\ browser' = [browser EXCEPT ![b].lastScanMsg = "error"]
           /\ lastOp' = "load:missing"
           /\ UNCHANGED volumes
         ELSE IF app.vols[first].loaded THEN
           /\ browser' = [browser EXCEPT ![b].lastScanMsg = "error"]
           /\ lastOp' = "load:already"
           /\ UNCHANGED volumes
         ELSE IF first \notin DOMAIN volumes THEN
           /\ lastOp' = "load:refused"
           /\ UNCHANGED <<volumes, browser>>
         ELSE
           /\ app.scanMsgTimers < MaxTimers
           /\ volumes' = [volumes EXCEPT ![first] =
                            Merge(@, [loaded |-> TRUE, loadedAt |-> now,
                                      loadedBy |-> "SISTEMA"])]
           /\ browser' = [browser EXCEPT ![b].lastScanMsg = "success",
                                         ![b].scanMsgTimers = @ + 1]
           /\ lastOp' = "load:done"
      /\ UNCHANGED <<storeVars, loadedPieces, now, csvVars, pdfVars, scanVars,
                     lastRun, discarded, committed, userDocs, warehouses, shipRuns>>

\* setTimeout(() => setLastScanMsg(null), 3000) and
\* setTimeout(() => setShowSuccessToast(null), 3000)
SaidaTimeout(b) ==
  /\ \/ /\ browser[b].scanMsgTimers > 0
        /\ browser' = [browser EXCEPT ![b].lastScanMsg = Null,
                                      ![b].scanMsgTimers = @ - 1]
     \/ /\ browser[b].toastTimers > 0
        /\ browser' = [browser EXCEPT ![b].toast = None, ![b].toastTimers = @ - 1]
  /\ lastOp' = "saida:timer"
  /\ UNCHANGED <<storeVars, loadedPieces, now, csvVars, pdfVars, scanVars,
                 lastRun, discarded, committed, userDocs, warehouses, volumes, shipRuns>>

\* The button of line 3041 is enabled (its disabled attribute, 3043).
FinalizeEnabled(app, ws) ==
  /\ PendingVolumes(app, SaidaClientProjects(app, ws), ws) = {}
  /\ ClientVols(app, SaidaClientProjects(app, ws), ws) # {}
  /\ AllProduced(app, SaidaClientProjects(app, ws), ws)

\* handleFinalizeLoad (lines 2885-2902), called by the enabled button.
HandleFinalizeLoad(b) ==
  LET app == browser[b]
      ws == getWorkspaceId(b)
  IN  /\ ~app.showFinalizeModal
      /\ FinalizeEnabled(app, ws)
      /\ IF app.selClient = <<>> \/ Len(SaidaClientProjects(app, ws)) = 0 THEN
           lastOp' = "finalize:noclient" /\ UNCHANGED browser
         ELSE IF PendingVolumes(app, SaidaClientProjects(app, ws), ws) # {} THEN
           lastOp' = "finalize:pending" /\ UNCHANGED browser
         ELSE IF ~AllProduced(app, SaidaClientProjects(app, ws), ws) THEN
           lastOp' = "finalize:notproduced" /\ UNCHANGED browser
         ELSE
           /\ browser' = [browser EXCEPT ![b].showFinalizeModal = TRUE]
           /\ lastOp' = "finalize:ask"
      /\ UNCHANGED <<storeVars, loadedPieces, now, csvVars, pdfVars, scanVars,
                     lastRun, discarded, committed, userDocs, warehouses, volumes, shipRuns>>

\* The button 'Cancelar' of the dialog (line 3180).
CancelFinalize(b) ==
  /\ browser[b].showFinalizeModal
  /\ browser' = [browser EXCEPT ![b].showFinalizeModal = FALSE]
  /\ lastOp' = "finalize:cancel"
  /\ UNCHANGED <<storeVars, loadedPieces, now, csvVars, pdfVars, scanVars,
                 lastRun, discarded, committed, userDocs, warehouses, volumes, shipRuns>>

\* clientProjects[0]?.warehouse_id, when it is set
WarehouseOf(clientProjects) ==
  IF /\ Len(clientProjects) > 0
     /\ "warehouse_id" \in DOMAIN clientProjects[1]
     /\ clientProjects[1].warehouse_id # <<>>
  THEN Some(clientProjects[1].warehouse_id) ELSE None

\* executeFinalizeLoad up to 'await batch.commit()' (lines 2904-2926), called
\* by the button 'Confirmar' of the dialog.
ExecuteFinalizeLoad(b) ==
  LET app == browser[b]
      clientProjects == SaidaClientProjects(app, getWorkspaceId(b))
  IN  /\ Len(shipRuns) < MaxRuns
      /\ app.showFinalizeModal
      /\ browser' = [browser EXCEPT ![b].showFinalizeModal = FALSE]
      /\ shipRuns' = Append(shipRuns,
           [op |-> "finalize", phase |-> "commit", browser |-> b,
            selWh |-> IF WarehouseOf(clientProjects) = None THEN <<>>
                      ELSE WarehouseOf(clientProjects)[1],
            wh |-> WarehouseOf(clientProjects),
            at |-> now,
            projIds |-> [k \in 1..Len(clientProjects) |-> clientProjects[k].id]])
      /\ lastOp' = "finalize:start"
      /\ UNCHANGED <<storeVars, loadedPieces, now, csvVars, pdfVars, scanVars,
                     lastRun, discarded, committed, userDocs, warehouses, volumes>>

\* batch.commit() resolves for run k: the projects are archived and the
\* warehouse freed, then lines 2928-2934.
FinalizeCommit(k) ==
  /\ k \in 1..Len(shipRuns)
  /\ shipRuns[k].op = "finalize"
  /\ UpdatesExist(shipRuns[k])
  /\ projects' =
       [id \in DOMAIN projects |->
          IF \E j \in 1..Len(shipRuns[k].projIds) : shipRuns[k].projIds[j] = id
          THEN Merge(projects[id], [status |-> "ARQUIVADO", archivedAt |-> shipRuns[k].at])
          ELSE projects[id]]
  /\ warehouses' =
       IF shipRuns[k].wh = None THEN warehouses
       ELSE [warehouses EXCEPT ![shipRuns[k].selWh] =
               Merge(@, [status |-> "LIVRE", current_project_id |-> <<>>])]
  /\ browser[shipRuns[k].browser].toastTimers < MaxTimers
  /\ browser' = [browser EXCEPT ![shipRuns[k].browser] =
                   [@ EXCEPT !.toast = Some("Carga finalizada com sucesso!"),
                             !.toastTimers = @ + 1,
                             !.selClient = <<>>,
                             !.lastScanMsg = Null]]
  /\ shipRuns' = Without(shipRuns, k)
  /\ lastOp' = "finalize:done"
  /\ UNCHANGED <<pieces, loadedPieces, now, csvVars, pdfVars, scanVars,
                 lastRun, discarded, committed, userDocs, volumes>>

\* batch.commit() rejects for run k: the catch block (lines 2936-2939).
FinalizeFail(k) ==
  /\ k \in 1..Len(shipRuns)
  /\ shipRuns[k].op = "finalize"
  /\ shipRuns' = Without(shipRuns, k)
  /\ lastOp' = "finalize:failed"
  /\ UNCHANGED <<storeVars, loadedPieces, now, csvVars, pdfVars, scanVars,
                 lastRun, discarded, committed, userDocs, warehouses, volumes, browser>>

-----------------------------------------------------------------------------
(* Initial state and specifications.                                       *)

\* The state of a freshly mounted application: the store holds the documents
\* of the batch imported earlier, file and pdf are the values of the two file
\* inputs.
NoBatch == [projects |-> <<>>, pieces |-> <<>>]

InitProgram(batch, file, pdf) ==
  /\ pieces = SetAll(EmptyDocs, batch.pieces)
  /\ projects = SetAll(EmptyDocs, batch.projects)
  /\ loadedPieces = EmptyDocs
  /\ now = 1
  /\ pecasFile = file
  /\ isProcessingImport = FALSE
  /\ loading = FALSE
  /\ importStatus = NoStatus
  /\ importErrors = <<>>
  /\ previewData = None
  /\ pendingData = None
  /\ importRuns = <<>>
  /\ statusTimers = 0
  /\ pdfFile = pdf
  /\ promobItems = <<>>
  /\ isProcessingPdf = FALSE
  /\ pdfStatus = NoStatus
  /\ pdfGlobalErrors = <<>>
  /\ pdfRuns = <<>>
  /\ showSuccessToast = None
  /\ toastTimers = 0
  /\ isScanning = [s \in Sessions |-> FALSE]
  /\ lastMsg = [s \in Sessions |-> ScanMsg(Null, Null)]
  /\ scanRuns = <<>>
  /\ lastOp = "init"
  /\ lastRun = None
  /\ discarded = {}
  /\ committed = <<>>

\* The same with no user, warehouse or volume in the store and every browser
\* freshly mounted.
InitWith(batch, file, pdf) ==
  /\ InitProgram(batch, file, pdf)
  /\ InitApp(EmptyDocs, EmptyDocs, EmptyDocs)

Init == InitWith(NoBatch, None, None)

\* The CSV staging and commit gate of one administrator session.
Next ==
  \/ \E f \in StageFiles : SelectFile(f)
  \/ HandleAnalyze
  \/ \E k \in 1..Len(importRuns) : AnalyzeRead(k)
  \/ \E k \in 1..Len(importRuns) : AnalyzeReadFail(k)
  \/ HandleConfirm
  \/ \E k \in 1..Len(importRuns) : ConfirmCommit(k)
  \/ \E k \in 1..Len(importRuns) : ConfirmFail(k)
  \/ HandleCancel
  \/ StatusTimeout

Spec == Init /\ [][Next]_vars

\* The analysis as a function of the file: any file of the line catalogue is
\* in the file input, and the handlers of the analysis act on it.
InitRows ==
  \/ \E f \in Files(AllRows) : InitWith(NoBatch, Some(f), None)
  \/ InitWith(NoBatch, None, None)

NextRows ==
  \/ HandleAnalyze
  \/ \E k \in 1..Len(importRuns) : AnalyzeRead(k)
  \/ HandleConfirm
  \/ \E k \in 1..Len(importRuns) : ConfirmCommit(k)
  \/ HandleCancel

SpecRows == InitRows /\ [][NextRows]_vars

\* The scans of two sessions on a store that holds the batch of one imported
\* file.
ScanFile == [rows |-> <<"A1">>, size |-> MAX_FILE_SIZE]

ScanBatch ==
  BuildBatch(AnalyzeOutcome(FileText(ScanFile.rows), WS, FALSE).pendingData[1], WS, 0)

InitScan == InitWith(ScanBatch, None, None)

NextScan ==
  \/ \E s \in Sessions, b \in ScanCodes : HandleScan(s, b)
  \/ \E k \in 1..Len(scanRuns) : ScanGetDoc(k)
  \/ \E k \in 1..Len(scanRuns) : ScanUpdateDoc(k)
  \/ \E k \in 1..Len(scanRuns) : ScanFail(k)

SpecScan == InitScan /\ [][NextScan]_vars

\* The extraction as a function of the PDF file: any file of the label
\* catalogue is in the file input, and processPdfFile acts on it.
InitPdf == \E f \in PdfFiles : InitWith(NoBatch, None, Some(f))

NextPdf ==
  \/ ProcessPdfFile
  \/ \E k \in 1..Len(pdfRuns) : PdfOpenFail(k)
  \/ \E k \in 1..Len(pdfRuns) : PdfLoadFail(k)
  \/ \E k \in 1..Len(pdfRuns) : PdfExtract(k)

SpecPdf == InitPdf /\ [][NextPdf]_vars

\* The review and the saving of the labels of a PDF file in a workspace whose
\* store holds the batch of one imported CSV file.
SaveFiles == {[open |-> "ok", pages |-> <<PageOf(cells)>>] : cells \in SeqsUpTo(SaveCells, MaxCells)}

EditFields == {"cliente"}
EditValues == {<<>>, <<"B", "o">>}

InitSave == \E f \in SaveFiles : InitWith(ScanBatch, None, Some(f))

NextSave ==
  \/ PiecesSnapshot
  \/ ProcessPdfFile
  \/ \E k \in 1..Len(pdfRuns) : PdfExtract(k)
  \/ \E k \in 1..Len(promobItems), field \in EditFields, value \in EditValues :
       UpdatePromobItem(k, field, value)
  \/ SavePromobData
  \/ \E k \in 1..Len(pdfRuns) : PdfSaveCommit(k)
  \/ \E k \in 1..Len(pdfRuns) : PdfSaveFail(k)
  \/ ToastTimeout

SpecSave == InitSave /\ [][NextSave]_vars

\* The extraction of the labels of a PDF file in a workspace whose store
\* holds the piece AB1, before or after the application has loaded it.
DupFiles == {[open |-> "ok", pages |-> <<PageOf(cells)>>] : cells \in SeqsUpTo(DupCells, MaxCells)}

InitDup == \E f \in DupFiles : InitWith(ScanBatch, None, Some(f))

NextDup ==
  \/ PiecesSnapshot
  \/ ProcessPdfFile
  \/ \E k \in 1..Len(pdfRuns) : PdfExtract(k)

SpecDup == InitDup /\ [][NextDup]_vars

-----------------------------------------------------------------------------
(* Properties.                                                             *)

\* The outcomes of a call of handleAnalyze, and of every step of a run of it.
AnalyzeCallTags == {"analyze:ignored", "analyze:nofile", "analyze:toobig", "analyze:start"}
AnalyzeStepTags == AnalyzeCallTags \cup {"analyze:done", "analyze:failed"}
ConfirmCallTags == {"confirm:ignored", "confirm:start"}

\* C1: a call of handleAnalyze made while an earlier run of it is in flight
\* is ignored: it changes no state and starts no run, so that at most one
\* analysis is ever in flight and one run leaves one error list and at most
\* one preview.
C1_ReentrantAnalyzeIsNoOp ==
  [][/\ (AnalyzeRuns # <<>> /\ lastOp' \in AnalyzeCallTags)
          => /\ lastOp' = "analyze:ignored"
             /\ UNCHANGED progVars
             /\ UNCHANGED <<lastRun, discarded, committed>>
     /\ Len(AnalyzeRuns') <= 1]_vars

C1_Witness ==
  /\ lastOp = "analyze:ignored"
  /\ AnalyzeRuns # <<>>

\* C2: a call of handleConfirm starts a batch exactly when there is staged
\* data and no import run is in flight; any other call changes no state and
\* writes nothing; at most one import run, hence at most one commit, is in
\* flight.
C2_ConfirmGate ==
  [][/\ lastOp' \in ConfirmCallTags
          => IF pendingData # None /\ importRuns = <<>>
             THEN /\ lastOp' = "confirm:start"
                  /\ Len(ConfirmRuns') = 1
                  /\ UNCHANGED storeVars
             ELSE /\ lastOp' = "confirm:ignored"
                  /\ UNCHANGED progVars
     /\ Len(importRuns') <= 1]_vars

C2_Witness ==
  /\ lastOp = "confirm:ignored"
  /\ pendingData # None
  /\ ConfirmRuns # <<>>

\* C3: a batch commit that fails writes nothing to the store, leaves the
\* staged data, the preview and the error list as they were and releases the
\* in-flight flag, so that the staged batch can be confirmed again.
C3_FailedCommitKeepsStaging ==
  [][lastOp' = "confirm:failed"
       => /\ UNCHANGED <<pieces, projects>>
          /\ UNCHANGED <<pendingData, previewData, importErrors>>
          /\ ~isProcessingImport'
          /\ ~loading'
          /\ (pendingData # None => ConfirmGuard')]_vars

C3_Witness ==
  /\ lastOp = "confirm:failed"
  /\ pendingData # None
  /\ ConfirmGuard
  /\ pieces = EmptyDocs

\* C4: once cancel has dropped staged pieces, none of them is written to the
\* store, by the cancel or by any later step, until a new analysis starts.
C4_DiscardedNeverWritten ==
  [][\A id \in discarded \cup discarded' :
       /\ (id \in DOMAIN pieces') = (id \in DOMAIN pieces)
       /\ id \in DOMAIN pieces => pieces'[id] = pieces[id]]_vars

InSeq(x, seq) == \E k \in 1..Len(seq) : seq[k] = x

\* C5: the commit of a batch staged from a file whose batch was committed
\* before leaves the set of piece documents and the set of project documents
\* as they were: the documents are overwritten under the same ids.
C5_RecommitSameDocuments ==
  [][(lastOp' = "confirm:done" /\ Len(importRuns) = 1
        /\ InSeq(importRuns[1].lines, committed))
       => /\ DOMAIN pieces' = DOMAIN pieces
          /\ DOMAIN projects' = DOMAIN projects
          /\ pieces' = pieces]_vars

C5_Witness ==
  /\ lastOp = "confirm:done"
  /\ Len(committed) = 2
  /\ committed[1] = committed[2]
  /\ DOMAIN pieces # {}

\* C6: a piece that is PRODUZIDA is never written again by a scan: its
\* status, producedAt, producedBy and scanHistory stay as the first scan
\* left them, under every interleaving of the scans of the sessions.
C6_ProducedOnce ==
  [][\A id \in DOMAIN pieces :
       pieces[id].status = "PRODUZIDA" => pieces'[id] = pieces[id]]_vars

\* The last analysis went through lines of data and staged none of them.
NoValidRecord ==
  /\ lastRun # None
  /\ Len(lastRun[1].lines) >= MIN_ROWS_REQUIRED
  /\ lastRun[1].origin = <<>>

\* C7: after an analysis whose lines gave no valid record the status is an
\* error, previewData and pendingData are null, and a call of handleConfirm
\* is ignored and writes nothing.
C7_NoValidRecordFails ==
  [][NoValidRecord
       => /\ lastOp = "analyze:done"
            => /\ importStatus.type = "error"
               /\ previewData = None
               /\ pendingData = None
          /\ lastOp' \in ConfirmCallTags
            => /\ lastOp' = "confirm:ignored"
               /\ UNCHANGED storeVars]_vars

C7_Witness ==
  /\ NoValidRecord
  /\ lastOp = "confirm:ignored"
  /\ importErrors # <<>>
  /\ importStatus.type = "error"

\* C8: no step of handleAnalyze writes the store, and the store does not
\* change while a run of it is in flight.
C8_AnalyzeNeverWrites ==
  [][(lastOp' \in AnalyzeStepTags \/ AnalyzeRuns # <<>>) => UNCHANGED storeVars]_vars

C8_Witness ==
  /\ lastOp = "analyze:done"
  /\ pendingData # None
  /\ DOMAIN pieces # {}

\* The number of columns of a line, counted on its commas.
ColumnCount(line) == Cardinality({i \in 1..Len(line) : line[i] = ","}) + 1

ErrorsOfLine(n) == SelectSeq(importErrors, LAMBDA e : e.lineNumber = n)

IsShortLine(line) == Trim(line) # <<>> /\ ColumnCount(line) < MinColumns

\* C9: every line of data that is not blank and has fewer than 17 columns
\* stages no piece and has exactly one error, of type MISSING_REQUIRED_COLUMN
\* and severity WARNING, under its line number.
C9_ShortLineOneWarning ==
  (lastOp = "analyze:done" /\ lastRun # None)
    => \A n \in 2..Len(lastRun[1].lines) :
         IsShortLine(lastRun[1].lines[n])
           => /\ ~InSeq(n, lastRun[1].origin)
              /\ Len(ErrorsOfLine(n)) = 1
              /\ ErrorsOfLine(n)[1].type = "MISSING_REQUIRED_COLUMN"
              /\ ErrorsOfLine(n)[1].severity = "WARNING"

C9_Witness ==
  /\ lastOp = "analyze:done"
  /\ lastRun # None
  /\ lastRun[1].origin = <<2>>
  /\ Len(lastRun[1].lines) = 3
  /\ IsShortLine(lastRun[1].lines[3])
  /\ Len(ErrorsOfLine(3)) = 1

BarcodeErrors == SelectSeq(pdfGlobalErrors, LAMBDA e : e.field = "codItem")

ShortCodeItems == SelectSeq(promobItems, LAMBDA it : Len(it.codItem) < 3)

\* C10 (PDF path): after an extraction there is exactly one error for the
\* barcode of each label whose code has fewer than 3 characters, of type
\* INVALID_BARCODE_FORMAT and severity ERROR.
C10_PdfShortBarcodeError ==
  lastOp = "pdf:done"
    => /\ Len(BarcodeErrors) = Len(ShortCodeItems)
       /\ \A k \in 1..Len(BarcodeErrors) :
            /\ BarcodeErrors[k].type = "INVALID_BARCODE_FORMAT"
            /\ BarcodeErrors[k].severity = "ERROR"

\* The columns of line n of the last analysis, as the loop splits them.
ColsOfLine(n) == CsvCols(Trim(lastRun[1].lines[n]))

\* Line n has 17 columns or more, a barcode of 3 characters or more and a
\* client code, a client name and a project name.
HasRequiredFields(n) ==
  /\ Trim(lastRun[1].lines[n]) # <<>>
  /\ Len(ColsOfLine(n)) >= MinColumns
  /\ Len(Col(ColsOfLine(n), 11)) >= 3
  /\ Col(ColsOfLine(n), 16) # <<>>
  /\ Col(ColsOfLine(n), 13) # <<>>
  /\ Col(ColsOfLine(n), 8) # <<>>

\* Each of the three dimension columns of line n is empty or a number >= 0.
HasValidDimensions(n) ==
  \A c \in {4, 5, 6} : DimensionOk(ReplaceFirstComma(Trim(Col(ColsOfLine(n), c))))

PlacesOfLine(n) == {k \in 1..Len(lastRun[1].origin) : lastRun[1].origin[k] = n}

\* Line n has no error and exactly one staged piece, which carries the
\* client name, project name and barcode of columns 13, 8 and 11, under a
\* client entry with the code of column 16.
StagedFromColumns(n) ==
  /\ ErrorsOfLine(n) = <<>>
  /\ Cardinality(PlacesOfLine(n)) = 1
  /\ pendingData # None
  /\ \A k \in PlacesOfLine(n) :
       /\ pendingData[1].tempPecas[k].cliente = Col(ColsOfLine(n), 13)
       /\ pendingData[1].tempPecas[k].projeto = Col(ColsOfLine(n), 8)
       /\ pendingData[1].tempPecas[k].id = WS \o <<"_">> \o Col(ColsOfLine(n), 11)
  /\ \E j \in 1..Len(pendingData[1].clientProjects) :
       /\ pendingData[1].clientProjects[j].clientCode = Col(ColsOfLine(n), 16)
       /\ Col(ColsOfLine(n), 8) \in pendingData[1].clientProjects[j].projects

AnalysisDone == lastOp = "analyze:done" /\ lastRun # None

\* C11 (as stated): every line with 17 columns or more, a barcode of 3
\* characters or more and non-empty client code, client name and project
\* name has no error and exactly one staged piece built from columns 16, 13,
\* 8 and 11.
C11_RequiredFieldsSuffice ==
  AnalysisDone
    => \A n \in 2..Len(lastRun[1].lines) : HasRequiredFields(n) => StagedFromColumns(n)

\* C11 (amended): every such line whose three dimension columns are each
\* empty or a non-negative number has no error and exactly one staged piece
\* built from columns 16, 13, 8 and 11.
C11_ValidRowStaged ==
  AnalysisDone
    => \A n \in 2..Len(lastRun[1].lines) :
         (HasRequiredFields(n) /\ HasValidDimensions(n)) => StagedFromColumns(n)

C11_Witness ==
  /\ AnalysisDone
  /\ Len(lastRun[1].lines) = 3
  /\ HasRequiredFields(2) /\ HasValidDimensions(2)
  /\ HasRequiredFields(3) /\ HasValidDimensions(3)
  /\ lastRun[1].lines[2] # lastRun[1].lines[3]
  /\ StagedFromColumns(2) /\ StagedFromColumns(3)

\* Some dimension column of line n holds content that is neither empty nor a
\* number >= 0 after the comma is replaced.
HasBadDimension(n) == ~HasValidDimensions(n)

\* The staged pieces whose line has an empty length column carry "0" as the
\* first part of medidas.
EmptyLengthStoredAsZero ==
  \A k \in 1..Len(lastRun[1].origin) :
    Col(ColsOfLine(lastRun[1].origin[k]), 4) = <<>>
      => pendingData # None /\ Head(pendingData[1].tempPecas[k].medidas) = "0"

\* C12: a line whose other fields are valid and whose length, width or
\* thickness is neither empty nor a non-negative number gets warnings only
\* and is still staged as exactly one piece; an empty dimension is stored as
\* "0" in medidas.
C12_BadDimensionStillStaged ==
  AnalysisDone
    => /\ \A n \in 2..Len(lastRun[1].lines) :
            (HasRequiredFields(n) /\ HasBadDimension(n))
              => /\ ErrorsOfLine(n) # <<>>
                 /\ \A e \in 1..Len(ErrorsOfLine(n)) :
                      ErrorsOfLine(n)[e].severity = "WARNING"
                 /\ Cardinality(PlacesOfLine(n)) = 1
       /\ EmptyLengthStoredAsZero

\* The extraction has marked the item as a duplicate of a known piece.
FlaggedDuplicate(item) ==
  ~item.isValid /\ InSeq("Codigo ja existe no sistema", item.errors)

\* The ids of the piece documents of the batch of the save run started last.
SubmittedIds(runs) ==
  {runs[Len(runs)].batch.pieces[j].id : j \in 1..Len(runs[Len(runs)].batch.pieces)}

\* C13: when savePromobData is called right after the extraction, with no
\* edit of the grid in between, and goes on to its batch, the batch holds no
\* piece document under the identifier of a record that the extraction has
\* marked as a duplicate of a known piece.
C13_DuplicateNeverWritten ==
  [][(lastOp = "pdf:done" /\ lastOp' = "pdfsave:start")
       => \A k \in 1..Len(promobItems) :
            FlaggedDuplicate(promobItems[k])
              => WS \o <<"_">> \o PdfBarcode(promobItems[k].codItem)
                   \notin SubmittedIds(pdfRuns')]_vars

\* Every data line of the last analysis is a valid row.
AllLinesValid ==
  \A n \in 2..Len(lastRun[1].lines) : HasRequiredFields(n) /\ HasValidDimensions(n)

Orders(n) == {p \in [1..n -> 1..n] : \A i, j \in 1..n : i # j => p[i] # p[j]}

\* The header followed by the data lines in the order p.
Permuted(lines, p) == <<lines[1]>> \o [k \in 1..(Len(lines) - 1) |-> lines[1 + p[k]]]

\* What a preview says, whatever the order of its entries: the clients, and
\* per client and project the number of pieces and of distinct modules.
PreviewShape(preview) ==
  [clients  |-> {<<preview[k].clientCode, preview[k].clientName>> : k \in 1..Len(preview)},
   projects |-> UNION {{<<preview[k].clientCode, preview[k].clientName,
                          preview[k].projects[j].name,
                          preview[k].projects[j].pieceCount,
                          preview[k].projects[j].moduleCount>> :
                            j \in 1..Len(preview[k].projects)} :
                       k \in 1..Len(preview)}]

\* C14: when every data line of the analysed file is a valid row, the
\* analysis of the same lines in any other order gives a preview with the
\* same clients and, per client and project, the same piece count and
\* distinct-module count.
C14_PreviewOrderInvariant ==
  (AnalysisDone /\ AllLinesValid /\ previewData # None)
    => \A p \in Orders(Len(lastRun[1].lines) - 1) :
         PreviewShape(OutcomeOfLines(Permuted(lastRun[1].lines, p), WS, FALSE).previewData[1])
           = PreviewShape(previewData[1])

\* The last call of handleAnalyze ended in a whole-run error: no file, a
\* file over the size limit, or a text of fewer than two lines.
WholeRunError ==
  \/ lastOp \in {"analyze:nofile", "analyze:toobig"}
  \/ AnalysisDone /\ Len(lastRun[1].lines) < MIN_ROWS_REQUIRED

\* C15: after a whole-run error no error of the list carries a line number,
\* previewData and pendingData are null, the status is one error message,
\* and neither in-flight flag is set nor any run left suspended.
C15_WholeRunErrorAborts ==
  WholeRunError
    => /\ \A e \in 1..Len(importErrors) : importErrors[e].lineNumber = 0
       /\ previewData = None
       /\ pendingData = None
       /\ importStatus.type = "error"
       /\ ~isProcessingImport
       /\ ~loading
       /\ importRuns = <<>>

C15_Witness ==
  /\ AnalysisDone
  /\ Len(lastRun[1].lines) < MIN_ROWS_REQUIRED
  /\ Len(importErrors) = 1
  /\ importErrors[1].type = "CSV_PARSE_ERROR"
  /\ importStatus.type = "error"

LineStaged(n) == Cardinality(PlacesOfLine(n)) = 1 /\ ErrorsOfLine(n) = <<>>

LineFailed(n) == PlacesOfLine(n) = {} /\ ErrorsOfLine(n) # <<>>

\* The places of the origin list are the places of the staged pieces.
OriginMatchesStaging ==
  Len(lastRun[1].origin) = IF pendingData = None THEN 0 ELSE Len(pendingData[1].tempPecas)

\* C16: after an analysis every non-blank data line has either exactly one
\* staged piece and no error, or no staged piece and one error or more under
\* its line number; and a valid line that comes after a failed line is
\* staged.
C16_EachLineStagedOrFailed ==
  AnalysisDone
    => /\ OriginMatchesStaging
       /\ \A n \in 2..Len(lastRun[1].lines) :
            Trim(lastRun[1].lines[n]) # <<>> => (LineStaged(n) \/ LineFailed(n))
       /\ \A m, n \in 2..Len(lastRun[1].lines) :
            (m < n /\ LineFailed(m) /\ HasRequiredFields(n) /\ HasValidDimensions(n))
              => LineStaged(n)

C16_Witness ==
  /\ AnalysisDone
  /\ Len(lastRun[1].lines) = 3
  /\ LineFailed(2)
  /\ HasRequiredFields(2)
  /\ LineStaged(3)
  /\ pendingData # None
  /\ Len(pendingData[1].tempPecas) = 1

\* C17: a run that has set an in-flight flag and has ended, by a return or
\* by an exception, has released the flag: whenever isProcessingImport or
\* isProcessingPdf is set, a run of that path is still suspended at an await
\* whose settlement will clear it.
C17_FlagHeldOnlyByRun ==
  /\ isProcessingImport => importRuns # <<>>
  /\ isProcessingPdf => pdfRuns # <<>>

\* The lookup of the kind and severity of an error on its field name.
KindFollowsField(e) ==
  /\ e.field \in {"barcode", "codItem"}
       => e.type = "INVALID_BARCODE_FORMAT" /\ e.severity = "ERROR"
  /\ e.field \in {"comprimento", "largura"}
       => e.type = "INVALID_MEASUREMENTS" /\ e.severity = "WARNING"
  /\ e.field \in {"clientName", "cliente"} => e.type = "MISSING_CLIENT_INFO"

\* The errors of a list that come from a validation failure carry a field.
FieldErrors(errors) == SelectSeq(errors, LAMBDA e : e.field # Null)

\* The extraction gives one error with a field per validation message of the
\* items.
OneErrorPerFailure ==
  lastOp = "pdf:done"
    => Len(FieldErrors(pdfGlobalErrors))
         = Sum([k \in 1..Len(promobItems) |->
                  Len(SelectSeq(promobItems[k].errors,
                                LAMBDA m : m # "Codigo ja existe no sistema"))],
               Len(promobItems))

\* C18: every validation failure has one error that carries its field, and
\* the kind and severity of every such error, of the CSV list and of the PDF
\* list, follow the lookup on the field name.
C18_KindByField ==
  /\ OneErrorPerFailure
  /\ \A k \in 1..Len(FieldErrors(importErrors)) : KindFollowsField(FieldErrors(importErrors)[k])
  /\ \A k \in 1..Len(FieldErrors(pdfGlobalErrors)) :
       KindFollowsField(FieldErrors(pdfGlobalErrors)[k])

\* The label cells of the pages of a file, in reading order.
RECURSIVE LabelCells(_)
LabelCells(pages) ==
  IF pages = <<>> THEN <<>>
  ELSE SelectSeq(Head(pages).cells,
                 LAMBDA c : c # <<>> /\ IsLabelCell(Join(c, " ")))
         \o LabelCells(Tail(pages))

\* The items an extraction leaves, against the piece ids known: an item
\* is marked as existing exactly when its derived identifier is known, and
\* every label has its item in the grid.
MarkedIffKnown(items, known, file) ==
  /\ \A k \in 1..Len(items) :
       InSeq("Codigo ja existe no sistema", items[k].errors)
         <=> (WS \o <<"_">> \o PdfBarcode(items[k].codItem)) \in known
  /\ \A k \in 1..Len(items) :
       InSeq("Codigo ja existe no sistema", items[k].errors) => ~items[k].isValid
  /\ Len(items) = Len(LabelCells(file.pages))

\* C19: the extraction that ends run k leaves every label in the grid and
\* marks a record with 'code already exists' exactly when the piece set the
\* run reads holds a piece under the derived identifier of the record.
C19_DuplicateIffKnown ==
  [][lastOp' = "pdf:done"
       => \A k \in 1..Len(pdfRuns) :
            (pdfRuns[k].op = "extract" /\ pdfRuns' = Without(pdfRuns, k))
              => MarkedIffKnown(promobItems', pdfRuns[k].pieces, pdfRuns[k].file)]_vars

\* Every label of the file processed has its item in the grid.
LabelsRetained ==
  (lastOp = "pdf:done" /\ pdfFile # None)
    => Len(promobItems) = Len(LabelCells(pdfFile[1].pages))

ClientErrors == {"Nome do cliente e obrigatorio", "Nome do cliente muito longo"}

\* C20: after an extraction every label is in the grid, and an item whose
\* client name is empty is marked invalid and carries a client error.
C20_MissingClientFlagged ==
  /\ LabelsRetained
  /\ lastOp = "pdf:done"
       => \A k \in 1..Len(promobItems) :
            NoClient(promobItems[k])
              => /\ ~promobItems[k].isValid
                 /\ \E m \in ClientErrors : InSeq(m, promobItems[k].errors)

\* The barcode of a stored piece id: what follows the workspace and "_".
BarcodeOfId(id) == SubSeq(id, Len(WS) + 2, Len(id))

\* The id handleScan looks up when the barcode is scanned.
ScanRefOf(barcode) == WS \o <<"_">> \o sanitizeBarcode(barcode)

\* C21: every piece document an import commit has written is stored under
\* the identifier that handleScan looks up for the barcode of that piece.
C21_ImportedIdIsScanId ==
  \A id \in DOMAIN pieces : ScanRefOf(BarcodeOfId(id)) = id

-----------------------------------------------------------------------------
(* The preview and the staged data of the CSV import screen.               *)

\* previewData and pendingData are null together, and what is staged is
\* never empty.
PreviewWithPending ==
  /\ (previewData = None) <=> (pendingData = None)
  /\ pendingData # None => Len(pendingData[1].tempPecas) > 0

\* The steps that clear the pair and the only step that sets it.
PairClearedAndSet ==
  /\ lastOp' \in {"analyze:start", "cancel", "confirm:done"}
       => previewData' = None /\ pendingData' = None
  /\ (previewData' # None /\ previewData' # previewData) => lastOp' = "analyze:done"
  /\ (pendingData' # None /\ pendingData' # pendingData) => lastOp' = "analyze:done"

\* C22: in every reachable state of the CSV import screen previewData is
\* non-null exactly when pendingData is non-null, and then the staged piece
\* list is non-empty; the start of an analysis, a cancel and a successful
\* confirm clear both, and only a finished analysis sets them.
C22_PreviewIffPending == []PreviewWithPending /\ [][PairClearedAndSet]_vars

\* An analysis has just staged pieces and opened the preview.
C22_Witness ==
  /\ lastOp = "analyze:done"
  /\ previewData # None
  /\ pendingData # None
  /\ Len(pendingData[1].tempPecas) > 0

\* The pieces the preview shows, summed over its client groups.
PreviewTotalPieces ==
  Sum([k \in 1..Len(previewData[1]) |-> previewData[1][k].totalPieces],
      Len(previewData[1]))

\* C23: in the preview built by handleAnalyze the sum of totalPieces over all
\* preview clients equals the number of staged pieces.
C23_PreviewCountsEveryPiece ==
  (previewData # None /\ pendingData # None)
    => PreviewTotalPieces = Len(pendingData[1].tempPecas)

\* C24: the staged pieces held after a successful analysis have pairwise
\* distinct identifiers, so the number of pieces staged is the number of
\* piece documents a confirm would create.
C24_StagedIdsDistinct ==
  pendingData # None
    => Cardinality(StagedIds) = Len(pendingData[1].tempPecas)

-----------------------------------------------------------------------------
(* Scans and imports on the same store.                                    *)

\* The store holds the piece AB1 of an earlier import; one operator scans it
\* while the administrator imports the CSV file and the PDF labels that hold
\* the same barcode again.
ReimportPdf == [open |-> "ok", pages |-> <<PageOf(<<"ok">>)>>]

InitReimport == InitWith(ScanBatch, Some(ScanFile), Some(ReimportPdf))

NextReimport ==
  \/ HandleScan("u1", <<"a", "b", "1">>)
  \/ \E k \in 1..Len(scanRuns) : ScanGetDoc(k)
  \/ \E k \in 1..Len(scanRuns) : ScanUpdateDoc(k)
  \/ HandleAnalyze
  \/ \E k \in 1..Len(importRuns) : AnalyzeRead(k)
  \/ HandleConfirm
  \/ \E k \in 1..Len(importRuns) : ConfirmCommit(k)
  \/ ProcessPdfFile
  \/ \E k \in 1..Len(pdfRuns) : PdfExtract(k)
  \/ SavePromobData
  \/ \E k \in 1..Len(pdfRuns) : PdfSaveCommit(k)

SpecReimport == InitReimport /\ [][NextReimport]_vars

\* A produced piece stays produced, with its producedAt and producedBy.
StaysProduced(id) ==
  /\ id \in DOMAIN pieces'
  /\ pieces'[id].status = "PRODUZIDA"
  /\ pieces'[id].producedAt = pieces[id].producedAt
  /\ pieces'[id].producedBy = pieces[id].producedBy

ProducedKept ==
  \A id \in DOMAIN pieces : pieces[id].status = "PRODUZIDA" => StaysProduced(id)

\* C25: piece status is monotonic: once a piece is PRODUZIDA it stays
\* PRODUZIDA, with its producedAt and producedBy kept, under any sequence of
\* scans and import commits (CSV confirm or PDF save).
C25_ProducedStaysProduced == [][ProducedKept]_vars

-----------------------------------------------------------------------------
(* savePromobData: what reaches the store.                                 *)

\* The step of savePromobData that builds a batch and awaits its commit.
SaveStarts == lastOp' = "pdfsave:start" /\ Len(pdfRuns') = Len(pdfRuns) + 1

SavedBatch == pdfRuns'[Len(pdfRuns')].batch

\* A batch is built only from a grid whose items are all valid and have a
\* client name.
SaveOnlyValidGrid ==
  SaveStarts => /\ AllValid(promobItems')
                /\ \A k \in 1..Len(promobItems') : ~NoClient(promobItems'[k])

\* With an invalid item nothing is submitted or written and the grid keeps
\* its items.
InvalidGridKept ==
  (lastOp' = "pdfsave:invalid" /\ lastOp # "pdfsave:invalid")
    => /\ pdfRuns' = pdfRuns
       /\ pieces' = pieces
       /\ projects' = projects
       /\ ~AllValid(promobItems')
       /\ Len(promobItems') = Len(promobItems)
       /\ \A k \in 1..Len(promobItems) :
            \A f \in GridFields : promobItems'[k][f] = promobItems[k][f]

\* The batch sets one piece for each item of the grid.
OnePiecePerItem == SaveStarts => Len(SavedBatch.pieces) = Len(promobItems')

\* The batch sets at most one project document for each project id.
OneProjectPerId ==
  SaveStarts =>
    \A i, j \in 1..Len(SavedBatch.projects) :
      SavedBatch.projects[i].id = SavedBatch.projects[j].id => i = j

\* C26: savePromobData writes only when, after its final validation, every
\* item of the grid is valid and has a client name; with an invalid item no
\* document is written and the grid items are kept; and the batch it writes
\* holds one piece per item and at most one project document per project.
C26_SaveWritesWholeGrid ==
  [][SaveOnlyValidGrid /\ InvalidGridKept /\ OnePiecePerItem /\ OneProjectPerId]_vars

-----------------------------------------------------------------------------
(* Two workspaces on one store.                                            *)

\* What the other workspace has imported: the lines A1 and B2 of the
\* catalogue, confirmed there.
OtherBatch ==
  BuildBatch(AnalyzeOutcome(FileText(<<"A1", "B2">>), OtherWS, FALSE).pendingData[1],
             OtherWS, 0)

IsolationPdfs ==
  {[open |-> "ok", pages |-> <<PageOf(<<c>>)>>] : c \in {"ok", "fresh"}}

InitIsolation ==
  \E f \in Files({"A1", "B2"}), p \in IsolationPdfs :
    InitWith(OtherBatch, Some(f), Some(p))

NextIsolation ==
  \/ HandleAnalyze
  \/ \E k \in 1..Len(importRuns) : AnalyzeRead(k)
  \/ HandleConfirm
  \/ \E k \in 1..Len(importRuns) : ConfirmCommit(k)
  \/ ProcessPdfFile
  \/ \E k \in 1..Len(pdfRuns) : PdfExtract(k)
  \/ SavePromobData
  \/ \E k \in 1..Len(pdfRuns) : PdfSaveCommit(k)

SpecIsolation == InitIsolation /\ [][NextIsolation]_vars

\* The documents of a collection that a step has created or changed.
Written(before, after) ==
  {id \in DOMAIN after : id \notin DOMAIN before \/ after[id] # before[id]}

\* The documents of a collection that belong to another workspace.
Foreign(coll) == {id \in DOMAIN coll : coll[id].workspaceId # WS}

\* A step writes documents of its own workspace only and leaves those of
\* other workspaces as they are.
IsolatedStep ==
  /\ \A id \in Written(pieces, pieces') : pieces'[id].workspaceId = WS
  /\ \A id \in Written(projects, projects') : projects'[id].workspaceId = WS
  /\ Written(pieces, pieces') \cap Foreign(pieces) = {}
  /\ Written(projects, projects') \cap Foreign(projects) = {}

\* C27: every document written by an import commit carries the workspaceId
\* of the committing session, and a commit in one workspace never creates,
\* overwrites or changes a piece or project document of another workspace.
C27_WorkspaceIsolation == [][IsolatedStep]_vars

-----------------------------------------------------------------------------
(* The first login of a workspace.                                         *)

LoginIds == { <<"A", "n", "a">>, <<"<", "b", ">", "e", "x", " ">> }
LoginPasswords == { <<"p", "1">>, <<"o", "n", "x", "=", "p", "2">> }
LoginBrowsers == {"b1", "b3"}

\* The store has no user; the browsers of two workspaces show the login form.
InitLogin == InitWith(NoBatch, None, None)

NextLogin ==
  \/ \E b \in LoginBrowsers : Snapshot(b, "users")
  \/ \E b \in LoginBrowsers, id \in LoginIds, pass \in LoginPasswords : HandleLogin(b, id, pass)
  \/ \E b \in LoginBrowsers : Logout(b)

SpecLogin == InitLogin /\ [][NextLogin]_vars

\* The master user document keeps its login id, password and role.
MasterKept ==
  MasterId \in DOMAIN userDocs =>
    /\ MasterId \in DOMAIN userDocs'
    /\ userDocs'[MasterId].login_id = userDocs[MasterId].login_id
    /\ userDocs'[MasterId].password = userDocs[MasterId].password
    /\ userDocs'[MasterId].role = userDocs[MasterId].role

\* C28: once a master user document exists in the store, no login attempt,
\* in any interleaving with the arrival of the users snapshot and from any
\* workspace, overwrites its login id, password or role.
C28_MasterNeverOverwritten == [][MasterKept]_vars

-----------------------------------------------------------------------------
(* Expedition and loading in two browsers of one workspace.                *)

\* A piece after its scan in production.
Produced(p) ==
  [p EXCEPT !.status = "PRODUZIDA", !.producedAt = 0, !.producedBy = "u1",
            !.scanHistory = {[type |-> "SCAN", at |-> 0, user |-> "u1"]}]

\* The store after the import of two files, one line each, of the clients Ac
\* and Bo, and the scan of both pieces.
ShipBatchOf(rows) ==
  BuildBatch(AnalyzeOutcome(FileText(rows), WS, FALSE).pendingData[1], WS, 0)

ShipBatch ==
  [projects |-> ShipBatchOf(<<"A1">>).projects \o ShipBatchOf(<<"Bo7">>).projects,
   pieces   |-> <<Produced(ShipBatchOf(<<"A1">>).pieces[1]),
                  Produced(ShipBatchOf(<<"Bo7">>).pieces[1])>>]

WhId == WS \o <<"_", "w", "h", "_", "1">>

\* The warehouse document of saveWh (lines 1486-1489)
ShipWarehouse == [id |-> WhId, workspaceId |-> WS, name |-> <<"W">>, status |-> "LIVRE"]

ShipMaster == MasterDoc(WS, <<"A", "n", "a">>, <<"p", "1">>)

\* Both browsers generate volumes; the loading screen is used in b1.
ShipBrowsers == {"b1", "b2"}
SaidaBrowsers == {"b1"}
ShipClients == { <<"7", " ", "-", " ", "A", "c">>, <<"7", " ", "-", " ", "B", "o">> }
ShipBarcodes == { <<"A", "C", "_", "V", "1">>, <<"B", "O", "_", "V", "1">> }
ShipPasswords == {"1234", "0000"}
MaxVols == 1

\* Every browser has the master logged in and has received the snapshots of
\* the store.
InitShip ==
  /\ InitProgram(ShipBatch, None, None)
  /\ userDocs = SetOne(EmptyDocs, ShipMaster)
  /\ warehouses = SetOne(EmptyDocs, ShipWarehouse)
  /\ volumes = EmptyDocs
  /\ shipRuns = <<>>
  /\ browser = [b \in Browsers |->
       IF b \in ShipBrowsers
       THEN [FreshBrowser EXCEPT
               !.users = SetOne(EmptyDocs, ShipMaster),
               !.projs = SetAll(EmptyDocs, ShipBatch.projects),
               !.wares = SetOne(EmptyDocs, ShipWarehouse),
               !.pieces = SetAll(EmptyDocs, ShipBatch.pieces),
               !.user = Some(ShipMaster)]
       ELSE FreshBrowser]

\* Volume generation for two clients in two browsers.
NextShip ==
  \/ \E b \in ShipBrowsers : SnapshotAll(b)
  \/ \E b \in ShipBrowsers, c \in ShipClients, w \in {<<>>, WhId},
        n \in 0..MaxVols, pass \in ShipPasswords : HandleGenerate(b, c, w, n, pass)
  \/ \E k \in 1..Len(shipRuns) : GenerateDeleted(k)
  \/ \E k \in 1..Len(shipRuns) : GenerateCommit(k)

SpecShip == InitShip /\ [][NextShip]_vars

\* The loading of the volumes of client Ac in browser b1, while browser b2
\* generates volumes for that client.
LoadClient == <<"7", " ", "-", " ", "A", "c">>

NextLoad ==
  \/ \E b \in ShipBrowsers : SnapshotAll(b)
  \/ \E pass \in ShipPasswords : HandleGenerate("b2", LoadClient, WhId, MaxVols, pass)
  \/ \E k \in 1..Len(shipRuns) : GenerateDeleted(k)
  \/ \E k \in 1..Len(shipRuns) : GenerateCommit(k)
  \/ \E b \in SaidaBrowsers, c \in {LoadClient, <<>>} : SelectClient(b, c)
  \/ \E b \in SaidaBrowsers, code \in ShipBarcodes : HandleScanVolume(b, code)
  \/ \E b \in SaidaBrowsers : SaidaTimeout(b)
  \/ \E b \in SaidaBrowsers : HandleFinalizeLoad(b)
  \/ \E b \in SaidaBrowsers : CancelFinalize(b)
  \/ \E b \in SaidaBrowsers : ExecuteFinalizeLoad(b)
  \/ \E k \in 1..Len(shipRuns) : FinalizeCommit(k)
  \/ \E k \in 1..Len(shipRuns) : FinalizeFail(k)

SpecLoad == InitShip /\ [][NextLoad]_vars

\* The client of a project of the store, as the screens display it.
ClientOfProject(id) ==
  formatClientDisplay(projects[id].client_name, projects[id].client_code)

\* A volume generation leaves an occupied warehouse with the client that
\* occupies it.
OccupantKept ==
  \A w \in DOMAIN warehouses :
    (warehouses[w].status = "OCUPADO" /\ lastOp' = "generate:done")
      => ClientOfProject(warehouses'[w].current_project_id)
           = ClientOfProject(warehouses[w].current_project_id)

\* C29: handleGenerate never assigns a warehouse that is OCUPADO by another
\* client's project: while a warehouse is OCUPADO for one client, no volume
\* generation for a different client changes its current_project_id, in any
\* interleaving of sessions.
C29_WarehouseExclusive == [][OccupantKept]_vars

\* The projects a step archives.
ArchivedNow ==
  {id \in DOMAIN projects :
     projects[id].status # "ARQUIVADO" /\ projects'[id].status = "ARQUIVADO"}

\* The volumes and the pieces of those projects, as the store holds them
\* when the archive batch is written.
VolumesOfArchived == {v \in DOMAIN volumes : volumes[v].projectId \in ArchivedNow}

PiecesOfArchived ==
  {p \in DOMAIN pieces :
     \E id \in ArchivedNow : /\ projects[id].project_name = pieces[p].projeto
                             /\ projects[id].workspaceId = pieces[p].workspaceId}

\* What handleFinalizeLoad and its button ask for, at the time of the write.
ArchiveJustified ==
  ArchivedNow # {} =>
    /\ VolumesOfArchived # {}
    /\ \A v \in VolumesOfArchived : volumes[v].loaded
    /\ PiecesOfArchived # {}
    /\ \A p \in PiecesOfArchived : pieces[p].status = "PRODUZIDA"

\* C30: executeFinalizeLoad archives the projects of a client and frees its
\* warehouse only in a state where the client has at least one volume, every
\* one of its volumes is loaded and every one of its pieces is PRODUZIDA: the
\* conditions checked before the confirmation dialog still hold when the
\* archive batch is written.
C30_ArchiveOnlyWhenLoaded == [][ArchiveJustified]_vars



====
